---- MODULE Spec2Model ----
(***************************************************************************)
(* A model of the umo middle end: the SIR data model (src/src/sir.rs), the *)
(* SIR compilation pass that computes liveness and inserts Copy and Drop   *)
(* (src/src/sir_compile.rs), the SIR interpreter (src/src/sir_eval.rs),    *)
(* the AST-to-SIR lowering (src/src/ast_lowering.rs) and the two type      *)
(* checkers (src/src/ast_typecheck.rs, src/src/sir_typecheck.rs).          *)
(*                                                                         *)
(* Variable, block and function ids are 0-based as in the source; TLA+     *)
(* sequences are 1-based, so body[id + 1] is the source's body[id].        *)
(***************************************************************************)
EXTENDS Integers, Sequences, FiniteSets, TLC

VARIABLES
    phase,          \* position of the pipeline
    program_unit,   \* the ProgramUnit handed to compile()
    analysed,       \* the functions as liveness() leaves them, before insert_copy()
    compiled,       \* compile(program_unit), once the pass has run
    ref,            \* interpreter state of program_unit under value semantics
    run,            \* interpreter state of eval1(compiled)
    stmts,          \* the resolved AST handed to the type checker and to lower()
    lowered,        \* lower(stmts), once lowering has run
    ast_ok,         \* result of the AST type checker on stmts
    sir_ok,         \* result of the SIR type checker on lowered or on program_unit
    validated,      \* result of ProgramUnit::validate_insts on program_unit
    checker,        \* the SIR type checker's position and context, instruction by instruction
    ty_ctx,         \* ntype::TyCtx: the bindings of the meta variables
    unify_call,     \* the last Type::unify call: arguments, context before, result
    id_gens,        \* cctx::IdGen: one shared counter per generator
    issued,         \* the fresh() calls made so far: generator, caller, id returned
    parsed,         \* the AST handed to assign_id_stmts, all ids dummy
    scope,          \* ast::Scope: bindings and binding_stack
    resolved,       \* the outcome of assign_id_stmts on parsed
    fixpoint,       \* the loop of liveness(): the function, the block to visit, `updated`
    build           \* the configuration options (cfg) the crate was built with

middle_vars == <<program_unit, analysed, compiled, ref, run>>
front_vars == <<stmts, lowered, ast_ok, sir_ok>>
check_vars == <<validated, checker>>
unify_vars == <<ty_ctx, unify_call>>
id_vars == <<id_gens, issued>>
resolve_vars == <<parsed, scope, resolved>>
pass_vars == <<fixpoint, build>>
side_vars == <<check_vars, unify_vars, id_vars, resolve_vars, pass_vars>>

vars == <<phase, middle_vars, front_vars, side_vars>>

(***************************************************************************)
(* Option<T>                                                               *)
(***************************************************************************)
None == [some |-> FALSE]
Some(v) == [some |-> TRUE, v |-> v]

Min(S) == CHOOSE x \in S : \A y \in S : x <= y

(***************************************************************************)
(* sir.rs: instructions, basic blocks, functions, program units            *)
(***************************************************************************)
Jump(target) == [kind |-> "Jump", target |-> target, live_out |-> None]
Branch(cond, branch_then, branch_else) ==
    [kind |-> "Branch", cond |-> cond, branch_then |-> branch_then,
     branch_else |-> branch_else, live_out |-> None]
Return(rhs) == [kind |-> "Return", rhs |-> rhs, live_out |-> None]
Copy(lhs, rhs) == [kind |-> "Copy", lhs |-> lhs, rhs |-> rhs, live_out |-> None]
Drop(rhs) == [kind |-> "Drop", rhs |-> rhs, live_out |-> None]
Literal(lhs, value) == [kind |-> "Literal", lhs |-> lhs, value |-> value, live_out |-> None]
Closure(lhs, function_id) ==
    [kind |-> "Closure", lhs |-> lhs, function_id |-> function_id, live_out |-> None]
Builtin(lhs, builtin) == [kind |-> "Builtin", lhs |-> lhs, builtin |-> builtin, live_out |-> None]
PushArg(value_ref) == [kind |-> "PushArg", value_ref |-> value_ref, live_out |-> None]
Call(lhs, callee) == [kind |-> "Call", lhs |-> lhs, callee |-> callee, live_out |-> None]

with_live_out(inst, live_out) == [inst EXCEPT !.live_out = Some(live_out)]

BasicBlock(insts) == [insts |-> insts, live_in |-> None]
with_live_in(bb, live_in) == [bb EXCEPT !.live_in = Some(live_in)]

Function(num_args, num_vars, body) ==
    [num_args |-> num_args, num_vars |-> num_vars, body |-> body]

ProgramUnit(functions) == [functions |-> functions]

\* Literal
LitUnit == [ty |-> "Unit"]
LitInteger(i) == [ty |-> "Integer", i |-> i]
LitBool(b) == [ty |-> "Bool", b |-> b]
LitString(s) == [ty |-> "String", s |-> s]

is_tail(inst) == inst.kind \in {"Jump", "Branch", "Return"}
is_middle(inst) == ~is_tail(inst)

(***************************************************************************)
(* sir_compile.rs: liveness analysis                                       *)
(***************************************************************************)
\* The transfer function: `alive` after the instruction -> `alive` before it.
update_alive(inst, alive) ==
    CASE inst.kind = "Jump" -> alive
      [] inst.kind = "Branch" -> alive \cup {inst.cond}
      [] inst.kind = "Return" -> alive \cup {inst.rhs}
      [] inst.kind = "Copy" -> (alive \ {inst.lhs}) \cup {inst.rhs}
      [] inst.kind = "Drop" -> alive \cup {inst.rhs}
      [] inst.kind = "Literal" -> alive \ {inst.lhs}
      [] inst.kind = "Closure" -> (alive \ {inst.lhs}) \cup {inst.function_id}
      [] inst.kind = "Builtin" -> alive \ {inst.lhs}
      [] inst.kind = "PushArg" -> alive \cup {inst.value_ref}
      [] inst.kind = "Call" -> (alive \ {inst.lhs}) \cup {inst.callee}

inst_live_in(inst) == update_alive(inst, inst.live_out.v)

unwrap_or_default(opt) == IF opt.some THEN opt.v ELSE {}

\* a live-out that forgets the else-target of a Branch
block_live_out_to_be_then_only(function, bb) ==
    LET last == bb.insts[Len(bb.insts)]
    IN CASE last.kind = "Jump" -> unwrap_or_default(function.body[last.target + 1].live_in)
         [] last.kind = "Branch" ->
                unwrap_or_default(function.body[last.branch_then + 1].live_in)
         [] last.kind = "Return" -> {}
\* Live-out of a block, from the live-in of its successors.
block_live_out_to_be(function, bb) ==
    LET last == bb.insts[Len(bb.insts)]
    IN CASE last.kind = "Jump" -> unwrap_or_default(function.body[last.target + 1].live_in)
         [] last.kind = "Branch" ->
                unwrap_or_default(function.body[last.branch_then + 1].live_in)
                \cup unwrap_or_default(function.body[last.branch_else + 1].live_in)
         [] last.kind = "Return" -> {}

block_live_out(bb) == bb.insts[Len(bb.insts)].live_out.v

\* a loop that takes the early return at every instruction that has a live_out
RECURSIVE liveness_insts_stale(_, _, _)
liveness_insts_stale(insts, i, alive) ==
    IF i = 0 THEN [insts |-> insts, alive |-> alive, returned |-> FALSE]
    ELSE IF insts[i].live_out.some
    THEN [insts |-> insts, alive |-> alive, returned |-> TRUE]
    ELSE CHOOSE r \in { liveness_insts_stale([insts EXCEPT ![i].live_out = Some(alive)],
                                              i - 1, a) :
                         a \in {update_alive(insts[i], alive)} } : TRUE
\* The backward loop of liveness_bb over insts[1..i]; `returned` tells that the
\* early return was taken.  The new `alive` is bound through a one-element set
\* so that it is computed once per instruction.
RECURSIVE liveness_insts(_, _, _)
liveness_insts(insts, i, alive) ==
    IF i = 0 THEN [insts |-> insts, alive |-> alive, returned |-> FALSE]
    ELSE IF insts[i].live_out = Some(alive)
    THEN [insts |-> insts, alive |-> alive, returned |-> TRUE]
    ELSE CHOOSE r \in { liveness_insts([insts EXCEPT ![i].live_out = Some(alive)], i - 1, a) :
                         a \in {update_alive(insts[i], alive)} } : TRUE

\* a liveness_bb that does not report a changed live_in
liveness_bb_silent(function, bb_id, updated) ==
    LET bb == function.body[bb_id + 1]
        r == liveness_insts(bb.insts, Len(bb.insts), block_live_out_to_be(function, bb))
        f1 == [function EXCEPT !.body[bb_id + 1].insts = r.insts]
    IN IF r.returned \/ bb.live_in = Some(r.alive)
       THEN [function |-> f1, updated |-> updated]
       ELSE [function |-> [f1 EXCEPT !.body[bb_id + 1].live_in = Some(r.alive)],
             updated |-> updated]
liveness_bb(function, bb_id, updated) ==
    LET bb == function.body[bb_id + 1]
        r == liveness_insts(bb.insts, Len(bb.insts), block_live_out_to_be(function, bb))
        f1 == [function EXCEPT !.body[bb_id + 1].insts = r.insts]
    IN IF r.returned \/ bb.live_in = Some(r.alive)
       THEN [function |-> f1, updated |-> updated]
       ELSE [function |-> [f1 EXCEPT !.body[bb_id + 1].live_in = Some(r.alive)],
             updated |-> TRUE]

\* One sweep `for bb_id in 0..function.body.len()`, from block bb_id on.
RECURSIVE liveness_sweep(_, _, _)
liveness_sweep(function, bb_id, updated) ==
    IF bb_id >= Len(function.body) THEN [function |-> function, updated |-> updated]
    ELSE LET r == liveness_bb(function, bb_id, updated)
         IN liveness_sweep(r.function, bb_id + 1, r.updated)

\* `while updated { ... }`
RECURSIVE liveness(_)
liveness(function) ==
    LET r == liveness_sweep(function, 0, FALSE)
    IN IF r.updated THEN liveness(r.function) ELSE r.function

(***************************************************************************)
(* sir_compile.rs: insertion of Copy and Drop                              *)
(***************************************************************************)
moved_rhs_of(inst) ==
    CASE inst.kind = "Branch" -> Some(inst.cond)
      [] inst.kind = "Return" -> Some(inst.rhs)
      [] inst.kind = "Drop" -> Some(inst.rhs)
      [] inst.kind = "PushArg" -> Some(inst.value_ref)
      [] inst.kind = "Call" -> Some(inst.callee)
      [] OTHER -> None

replace_moved_rhs(inst, to) ==
    CASE inst.kind = "Branch" -> [inst EXCEPT !.cond = to]
      [] inst.kind = "Return" -> [inst EXCEPT !.rhs = to]
      [] inst.kind = "Drop" -> [inst EXCEPT !.rhs = to]
      [] inst.kind = "PushArg" -> [inst EXCEPT !.value_ref = to]
      [] inst.kind = "Call" -> [inst EXCEPT !.callee = to]

lhs_of(inst) ==
    IF inst.kind \in {"Copy", "Literal", "Closure", "Builtin", "Call"}
    THEN Some(inst.lhs) ELSE None

\* The Drops of the unused carried-over variables, in increasing variable order;
\* each carries the carried-over set with the variables dropped so far removed.
RECURSIVE drop_unused(_, _)
drop_unused(unused, carried_over) ==
    IF unused = {} THEN <<>>
    ELSE LET var == Min(unused)
             co == carried_over \ {var}
         IN <<with_live_out(Drop(var), co)>> \o drop_unused(unused \ {var}, co)

\* a pass that never copies a moved operand
needs_copy_never(inst) == FALSE
\* Whether insert_copy_bb puts a Copy before `inst`.
needs_copy(inst) ==
    moved_rhs_of(inst).some /\ moved_rhs_of(inst).v \in inst.live_out.v

\* a pass that never drops a dead definition
needs_drop_never(inst) == FALSE
\* Whether insert_copy_bb puts a Drop after `inst`.
needs_drop(inst) ==
    lhs_of(inst).some /\ lhs_of(inst).v \notin inst.live_out.v

\* The loop `for mut inst in old_insts` from old_insts[i] on.
RECURSIVE insert_copy_insts(_, _, _, _)
insert_copy_insts(old_insts, i, num_vars, out) ==
    IF i > Len(old_insts) THEN [num_vars |-> num_vars, insts |-> out]
    ELSE LET inst == old_insts[i]
             copy == needs_copy(inst)
             new_rhs == num_vars
             copy_inst == with_live_out(Copy(new_rhs, moved_rhs_of(inst).v),
                                        inst_live_in(inst) \cup {new_rhs})
             inst1 == IF copy THEN replace_moved_rhs(inst, new_rhs) ELSE inst
             drop == needs_drop(inst1)
             inst2 == IF drop
                      THEN [inst1 EXCEPT !.live_out = Some(inst1.live_out.v \cup {lhs_of(inst1).v})]
                      ELSE inst1
             drop_inst == with_live_out(Drop(lhs_of(inst1).v), inst1.live_out.v)
         IN insert_copy_insts(old_insts, i + 1,
                IF copy THEN num_vars + 1 ELSE num_vars,
                out \o (IF copy THEN <<copy_inst>> ELSE <<>>)
                    \o <<inst2>>
                    \o (IF drop THEN <<drop_inst>> ELSE <<>>))

insert_copy_bb(num_vars, bb, carried_over) ==
    LET unused_carried_over == carried_over \ bb.live_in.v
        r == insert_copy_insts(bb.insts, 1, num_vars,
                               drop_unused(unused_carried_over, carried_over))
    IN [num_vars |-> r.num_vars, bb |-> [bb EXCEPT !.insts = r.insts]]

\* a carried-over set that forgets the targets of a Branch
carried_over_of_jumps_only(function, bb_id) ==
    (IF bb_id = 0 THEN 0 .. (function.num_args - 1) ELSE {})
    \cup UNION { block_live_out(function.body[p]) :
                 p \in { q \in 1 .. Len(function.body) :
                         LET last == function.body[q].insts[Len(function.body[q].insts)]
                         IN last.kind = "Jump" /\ last.target = bb_id } }
\* carried_over[bb_id]: the arguments for block 0, and the live-out of every
\* block whose terminator leads to bb_id.
carried_over_of(function, bb_id) ==
    (IF bb_id = 0 THEN 0 .. (function.num_args - 1) ELSE {})
    \cup UNION { block_live_out(function.body[p]) :
                 p \in { q \in 1 .. Len(function.body) :
                         LET last == function.body[q].insts[Len(function.body[q].insts)]
                         IN \/ last.kind = "Jump" /\ last.target = bb_id
                            \/ last.kind = "Branch"
                               /\ bb_id \in {last.branch_then, last.branch_else} } }

\* The loop `for (bb, bb_co) in function.body.iter_mut().zip(carried_over)`.
RECURSIVE insert_copy_blocks(_, _, _)
insert_copy_blocks(function, with_liveness, bb_id) ==
    IF bb_id >= Len(function.body) THEN function
    ELSE LET r == insert_copy_bb(function.num_vars, function.body[bb_id + 1],
                                 carried_over_of(with_liveness, bb_id))
         IN insert_copy_blocks(
                [function EXCEPT !.num_vars = r.num_vars, !.body[bb_id + 1] = r.bb],
                with_liveness, bb_id + 1)

insert_copy(function) == insert_copy_blocks(function, function, 0)

compile_function(function) == insert_copy(liveness(function))

compile(pu) ==
    ProgramUnit([i \in 1 .. Len(pu.functions) |-> compile_function(pu.functions[i])])

(***************************************************************************)
(* sir_eval.rs: the interpreter.  A machine is the interpreter's state:    *)
(* the stack of eval1_function invocations (innermost last), the host puts *)
(* calls made so far and how the run ended.  `moving` selects the          *)
(* interpreter's semantics (PushArg and Call empty the slot they read);    *)
(* with moving = FALSE a read never empties a slot (value semantics).      *)
(* Each frame also records `owned`, the slots that hold a value not yet    *)
(* released by a moving instruction or a Drop, and the machine records in  *)
(* own_fault the first breach of single ownership.                         *)
(***************************************************************************)
VInteger(i) == [ty |-> "Integer", i |-> i]
VString(s) == [ty |-> "String", s |-> s]
FunctionRef(function_id) == [ty |-> "FunctionRef", function_id |-> function_id]
BuiltinRef(builtin) == [ty |-> "BuiltinRef", builtin |-> builtin]

\* impl From<Literal> for Value
value_from(l) ==
    CASE l.ty = "Unit" -> VInteger(0)
      [] l.ty = "String" -> VString(l.s)
      [] l.ty = "Integer" -> VInteger(l.i)
      [] l.ty = "Bool" -> VInteger(IF l.b THEN 1 ELSE 0)

\* i32::to_string
digit(d) ==
    CASE d = 0 -> "0" [] d = 1 -> "1" [] d = 2 -> "2" [] d = 3 -> "3" [] d = 4 -> "4"
      [] d = 5 -> "5" [] d = 6 -> "6" [] d = 7 -> "7" [] d = 8 -> "8" [] d = 9 -> "9"
RECURSIVE nat_to_string(_)
nat_to_string(n) == IF n < 10 THEN digit(n) ELSE nat_to_string(n \div 10) \o digit(n % 10)
to_string(i) == IF i < 0 THEN "-" \o nat_to_string(0 - i) ELSE nat_to_string(i)

MaxInt == 60     \* integers the interpreter computes stay within -MaxInt .. MaxInt
MaxArgs == 2     \* pending arguments of one invocation
MaxDepth == 2    \* nested eval1_function invocations
MaxOut == 2      \* host puts calls of one run

\* eval_builtin where Puti computes its result without a call of the host
eval_builtin_quiet_puti(f, args) ==
    LET bad == [ok |-> FALSE, value |-> VInteger(0), puts |-> <<>>]
    IN CASE f \in {"Add", "Lt"} ->
              IF Len(args) = 2 /\ args[1].ty = "Integer" /\ args[2].ty = "Integer"
              THEN [ok |-> TRUE, puts |-> <<>>,
                    value |-> IF f = "Add" THEN VInteger(args[1].i + args[2].i)
                              ELSE VInteger(IF args[1].i < args[2].i THEN 1 ELSE 0)]
              ELSE bad
         [] f = "Puts" ->
              IF Len(args) = 1 /\ args[1].ty = "String"
              THEN [ok |-> TRUE, puts |-> <<args[1].s>>, value |-> VInteger(0)]
              ELSE bad
         [] f = "Puti" ->
              IF Len(args) = 1 /\ args[1].ty = "Integer"
              THEN [ok |-> TRUE, puts |-> <<>>, value |-> VInteger(0)]
              ELSE bad

\* eval_builtin: [ok, value, puts]; ok = FALSE is a panic (assert_eq! on the
\* number of arguments, "Expected integer", "Expected string").
eval_builtin(f, args) ==
    LET bad == [ok |-> FALSE, value |-> VInteger(0), puts |-> <<>>]
    IN CASE f \in {"Add", "Lt"} ->
              IF Len(args) = 2 /\ args[1].ty = "Integer" /\ args[2].ty = "Integer"
              THEN [ok |-> TRUE, puts |-> <<>>,
                    value |-> IF f = "Add" THEN VInteger(args[1].i + args[2].i)
                              ELSE VInteger(IF args[1].i < args[2].i THEN 1 ELSE 0)]
              ELSE bad
         [] f = "Puts" ->
              IF Len(args) = 1 /\ args[1].ty = "String"
              THEN [ok |-> TRUE, puts |-> <<args[1].s>>, value |-> VInteger(0)]
              ELSE bad
         [] f = "Puti" ->
              IF Len(args) = 1 /\ args[1].ty = "Integer"
              THEN [ok |-> TRUE, puts |-> <<to_string(args[1].i)>>, value |-> VInteger(0)]
              ELSE bad

\* eval1_function, up to its loop: the State of a new invocation.
new_frame(function_id, function, received_args) ==
    [function_id |-> function_id,
     vars |-> [i \in 1 .. function.num_vars |->
                 IF i <= Len(received_args) THEN Some(received_args[i]) ELSE None],
     args |-> <<>>,
     bb |-> 0,
     ip |-> 1,
     ret_lhs |-> 0,
     owned |-> {i \in 0 .. (function.num_vars - 1) : i < Len(received_args)}]

new_machine(pu) ==
    [stack |-> <<new_frame(0, pu.functions[1], <<>>)>>,
     out |-> <<>>, status |-> "running", own_fault |-> "none",
     short_call |-> pu.functions[1].num_args > 0]

top(m) == m.stack[Len(m.stack)]
in_range(f, v) == v < Len(f.vars)
filled(f, v) == in_range(f, v) /\ f.vars[v + 1].some
panic(m, why) == [m EXCEPT !.status = why]
\* the run is abandoned where it would exceed a bound of the model
cut(m) == [m EXCEPT !.status = "cut"]
ended(m) == m.status \notin {"running", "cut"}
note(m, breach) ==
    IF breach # "none" /\ m.own_fault = "none" THEN [m EXCEPT !.own_fault = breach] ELSE m
\* the frame after `state.vars[v] = Some(value)` and the step to the next instruction
write_slot(f, v, value) ==
    [f EXCEPT !.vars[v + 1] = Some(value), !.owned = @ \cup {v}, !.ip = @ + 1]
wrote(f, v) == IF v \in f.owned THEN "overwrite" ELSE "none"
released(f, v) == IF v \in f.owned THEN "none" ELSE "double_release"
with_top(m, f) == [m EXCEPT !.stack[Len(m.stack)] = f]

eval_jump(m, f, inst) == with_top(m, [f EXCEPT !.bb = inst.target, !.ip = 1])

eval_branch(m, f, inst) ==
    IF ~in_range(f, inst.cond) THEN panic(m, "index_out_of_bounds")
    ELSE IF ~filled(f, inst.cond) THEN panic(m, "unwrap_none")
    ELSE LET cond == f.vars[inst.cond + 1].v
         IN IF cond.ty # "Integer" THEN panic(m, "expected_integer")
            ELSE note(with_top(m, [f EXCEPT
                         !.bb = IF cond.i # 0 THEN inst.branch_then ELSE inst.branch_else,
                         !.ip = 1, !.owned = @ \ {inst.cond}]),
                      released(f, inst.cond))

\* `return BlockResult::Return(..)`, then the caller's `state.vars[*lhs] = Some(return_value)`
eval_return(m, f, inst) ==
    IF ~in_range(f, inst.rhs) THEN panic(m, "index_out_of_bounds")
    ELSE IF ~filled(f, inst.rhs) THEN panic(m, "unwrap_none")
    ELSE LET value == f.vars[inst.rhs + 1].v
             breach == IF inst.rhs \notin f.owned THEN "double_release"
                       ELSE IF f.owned # {inst.rhs} THEN "leak" ELSE "none"
             rest == SubSeq(m.stack, 1, Len(m.stack) - 1)
         IN IF rest = <<>>
            THEN note([m EXCEPT !.stack = <<>>, !.status = "returned"], breach)
            ELSE LET caller == rest[Len(rest)]
                 IN note(note([m EXCEPT !.stack = [rest EXCEPT ![Len(rest)] =
                                                    write_slot(caller, f.ret_lhs, value)]],
                              breach),
                         wrote(caller, f.ret_lhs))

eval_copy(m, f, inst) ==
    IF ~in_range(f, inst.rhs) \/ ~in_range(f, inst.lhs) THEN panic(m, "index_out_of_bounds")
    ELSE IF ~filled(f, inst.rhs) THEN panic(m, "unwrap_none")
    ELSE note(with_top(m, write_slot(f, inst.lhs, f.vars[inst.rhs + 1].v)), wrote(f, inst.lhs))

eval_drop(m, f, inst) ==
    IF ~in_range(f, inst.rhs) THEN panic(m, "index_out_of_bounds")
    ELSE with_top(m, [f EXCEPT !.vars[inst.rhs + 1] = None,
                               !.owned = @ \ {inst.rhs}, !.ip = @ + 1])

\* Literal, and the two instructions that create a callable value
eval_def(m, f, inst, value) ==
    IF ~in_range(f, inst.lhs) THEN panic(m, "index_out_of_bounds")
    ELSE note(with_top(m, write_slot(f, inst.lhs, value)), wrote(f, inst.lhs))

eval_push_arg(m, f, inst, moving) ==
    IF ~in_range(f, inst.value_ref) THEN panic(m, "index_out_of_bounds")
    ELSE IF ~filled(f, inst.value_ref) THEN panic(m, "unwrap_none")
    ELSE IF Len(f.args) >= MaxArgs THEN cut(m)
    ELSE LET value == f.vars[inst.value_ref + 1].v
             f1 == [f EXCEPT !.args = Append(@, value), !.ip = @ + 1,
                             !.owned = @ \ {inst.value_ref}]
         IN note(with_top(m, IF moving THEN [f1 EXCEPT !.vars[inst.value_ref + 1] = None]
                             ELSE f1),
                 released(f, inst.value_ref))

\* Call: `mem::replace(&mut state.args, vec![])`, the invocation of the callee
\* and `state.vars[*lhs] = Some(return_value)`.  The callee is the value held
\* in the slot: a builtin is evaluated at once, a function gets a new frame.
eval_call(pu, m, f, inst, moving) ==
    IF ~in_range(f, inst.callee) \/ ~in_range(f, inst.lhs) THEN panic(m, "index_out_of_bounds")
    ELSE IF ~filled(f, inst.callee) THEN panic(m, "unwrap_none")
    ELSE LET callee == f.vars[inst.callee + 1].v
             f0 == [f EXCEPT !.args = <<>>, !.owned = @ \ {inst.callee}]
             f1 == IF moving THEN [f0 EXCEPT !.vars[inst.callee + 1] = None] ELSE f0
             m1 == note(m, released(f, inst.callee))
         IN CASE callee.ty = "BuiltinRef" ->
                   LET r == eval_builtin(callee.builtin, f.args)
                   IN IF ~r.ok THEN panic(m, "builtin_panic")
                      ELSE IF Len(m.out) + Len(r.puts) > MaxOut
                              \/ r.value.i > MaxInt \/ r.value.i < 0 - MaxInt
                      THEN cut(m)
                      ELSE note([with_top(m1, write_slot(f1, inst.lhs, r.value))
                                   EXCEPT !.out = @ \o r.puts],
                                wrote(f1, inst.lhs))
              [] callee.ty = "FunctionRef" ->
                   IF callee.function_id >= Len(pu.functions)
                   THEN panic(m, "index_out_of_bounds")
                   ELSE LET function == pu.functions[callee.function_id + 1]
                        IN IF function.num_args > function.num_vars
                           THEN panic(m, "assert_failed")
                           ELSE IF Len(f.args) > function.num_vars
                           THEN panic(m, "index_out_of_bounds")
                           ELSE IF Len(m.stack) >= MaxDepth THEN cut(m)
                           ELSE [with_top(m1, f1) EXCEPT
                                   !.stack = Append(@, [new_frame(callee.function_id, function,
                                                                  f.args)
                                                          EXCEPT !.ret_lhs = inst.lhs]),
                                   !.short_call = @ \/ Len(f.args) < function.num_args]
              [] OTHER -> panic(m, "not_callable")

\* One iteration of the loop of eval1_bb, or the hand-over from a block to
\* the next in eval1_function.
eval1_step(pu, m, moving) ==
    LET f == top(m)
        bb == pu.functions[f.function_id + 1].body[f.bb + 1]
    IN IF f.ip > Len(bb.insts) THEN panic(m, "missing_tail")
       ELSE LET inst == bb.insts[f.ip]
            IN CASE inst.kind = "Jump" -> eval_jump(m, f, inst)
                 [] inst.kind = "Branch" -> eval_branch(m, f, inst)
                 [] inst.kind = "Return" -> eval_return(m, f, inst)
                 [] inst.kind = "Copy" -> eval_copy(m, f, inst)
                 [] inst.kind = "Drop" -> eval_drop(m, f, inst)
                 [] inst.kind = "Literal" -> eval_def(m, f, inst, value_from(inst.value))
                 [] inst.kind = "Closure" -> eval_def(m, f, inst, FunctionRef(inst.function_id))
                 [] inst.kind = "Builtin" -> eval_def(m, f, inst, BuiltinRef(inst.builtin))
                 [] inst.kind = "PushArg" -> eval_push_arg(m, f, inst, moving)
                 [] inst.kind = "Call" -> eval_call(pu, m, f, inst, moving)

(***************************************************************************)
(* The program units handed to compile(): every function of two variables  *)
(* and two basic blocks of at most two instructions, in a unit with two    *)
(* fixed callees, and the programs of the repository's tests.              *)
(***************************************************************************)
SmallVars == {0, 1}
SmallBlocks == {0, 1}
SmallLiterals == {LitInteger(1)}

MiddleInsts ==
    {Copy(l, r) : l \in SmallVars, r \in SmallVars}
    \cup {Drop(r) : r \in SmallVars}
    \cup {Literal(l, v) : l \in SmallVars, v \in SmallLiterals}
    \cup {Closure(l, g) : l \in SmallVars, g \in {1, 2}}
    \cup {Builtin(l, "Puts") : l \in SmallVars}
    \cup {PushArg(r) : r \in SmallVars}
    \cup {Call(l, r) : l \in SmallVars, r \in SmallVars}

TailInsts ==
    {Jump(t) : t \in SmallBlocks}
    \cup {Branch(c, te[1], te[2]) :
            c \in SmallVars, te \in {x \in SmallBlocks \X SmallBlocks : x[1] # x[2]}}
    \cup {Return(r) : r \in SmallVars}

\* a tail instruction, alone or after one other instruction
SmallBasicBlocks ==
    {BasicBlock(<<tail>>) : tail \in TailInsts}
    \cup {BasicBlock(<<middle, tail>>) : middle \in MiddleInsts, tail \in TailInsts}

SmallFunctions ==
    {Function(0, Cardinality(SmallVars), body) :
        body \in [1 .. Cardinality(SmallBlocks) -> SmallBasicBlocks]}

\* fn(a) { a }
Identity == Function(1, 1, <<BasicBlock(<<Return(0)>>)>>)
\* fn() { puts("f") }
Greeter ==
    Function(0, 2, <<BasicBlock(<<Literal(0, LitString("f")), Builtin(1, "Puts"),
                                  PushArg(0), Call(0, 1), Return(0)>>)>>)

SmallProgramUnits == {ProgramUnit(<<f, Identity, Greeter>>) : f \in SmallFunctions}

\* sir_compile.rs, test_compile
test_compile ==
    ProgramUnit(<<Function(0, 4, <<BasicBlock(<<
        Literal(0, LitString("Hello, world!")), Builtin(1, "Puts"), PushArg(0), Call(3, 1),
        Builtin(1, "Puts"), PushArg(0), Call(3, 1),
        Literal(0, LitString("Hello, world!")), Builtin(1, "Puts"), PushArg(0), Call(3, 1),
        Literal(2, LitUnit), Return(2)>>)>>)>>)

\* sir_compile.rs, test_compile_drop
test_compile_drop ==
    ProgramUnit(<<Function(0, 4, <<BasicBlock(<<
        Literal(0, LitString("dummy")), Literal(0, LitString("Hello, world!")),
        Builtin(1, "Puts"), PushArg(0), Call(3, 1),
        Literal(2, LitUnit), Return(2)>>)>>)>>)

\* sir_compile.rs, test_compile_drop_arg, called with its argument
test_compile_drop_arg ==
    ProgramUnit(<<Function(0, 3, <<BasicBlock(<<
                      Literal(0, LitInteger(7)), Closure(1, 1), PushArg(0), Call(2, 1),
                      Return(2)>>)>>),
                  Function(1, 2, <<BasicBlock(<<Literal(1, LitUnit), Return(1)>>)>>)>>)

\* eval_.rs, test_puts_with_artificial_jump
test_puts_with_artificial_jump ==
    ProgramUnit(<<Function(0, 4, <<
        BasicBlock(<<Literal(0, LitString("Hello, world!")), Jump(1)>>),
        BasicBlock(<<Builtin(2, "Puts"), PushArg(0), Call(3, 2),
                     Literal(1, LitUnit), Return(1)>>)>>)>>)

\* eval_.rs, test_add
test_add ==
    ProgramUnit(<<Function(0, 7, <<BasicBlock(<<
        Literal(0, LitInteger(1)), Literal(1, LitInteger(1)), Builtin(3, "Add"),
        PushArg(0), PushArg(1), Call(2, 3), Builtin(5, "Puti"), PushArg(2), Call(6, 5),
        Literal(4, LitUnit), Return(4)>>)>>)>>)

\* eval_.rs, test_branch_true and test_branch_false
test_branch(b) ==
    ProgramUnit(<<Function(0, 5, <<
        BasicBlock(<<Literal(0, LitBool(b)), Branch(0, 1, 2)>>),
        BasicBlock(<<Literal(1, LitString("x is true")), Builtin(3, "Puts"), PushArg(1),
                     Call(4, 3), Literal(2, LitUnit), Return(2)>>),
        BasicBlock(<<Literal(1, LitString("x is false")), Builtin(3, "Puts"), PushArg(1),
                     Call(4, 3), Literal(2, LitUnit), Return(2)>>)>>)>>)

\* eval_.rs, test_sum, with the loop bound `limit` in place of 10
test_sum(limit) ==
    ProgramUnit(<<Function(0, 10, <<
        BasicBlock(<<Literal(0, LitInteger(0)), Literal(1, LitInteger(0)), Jump(1)>>),
        BasicBlock(<<Literal(2, LitInteger(limit)), Builtin(3, "Lt"), PushArg(1), PushArg(2),
                     Call(6, 3), Branch(6, 2, 3)>>),
        BasicBlock(<<Builtin(4, "Add"), PushArg(0), PushArg(1), Call(0, 4),
                     Literal(7, LitInteger(1)), Builtin(4, "Add"), PushArg(1), PushArg(7),
                     Call(1, 4), Jump(1)>>),
        BasicBlock(<<Builtin(5, "Puti"), PushArg(0), Call(9, 5),
                     Literal(8, LitUnit), Return(8)>>)>>)>>)

\* ast_lowering.rs, test_lower_simple_var: the SIR of `let x = 42; x`
test_lower_simple_var ==
    ProgramUnit(<<Function(0, 2, <<BasicBlock(<<
        Literal(0, LitInteger(42)), Copy(1, 0), Return(1)>>)>>)>>)

\* fn(s) { puts(s) }
PutsWrapper ==
    Function(1, 3, <<BasicBlock(<<Builtin(1, "Puts"), PushArg(0), Call(2, 1), Return(2)>>)>>)

\* if false { f4("b") } else { puts("a") }, where f4 is the last function of the unit
closure_on_one_arm ==
    ProgramUnit(<<Function(0, 4, <<
                      BasicBlock(<<Literal(0, LitBool(FALSE)), Branch(0, 1, 2)>>),
                      BasicBlock(<<Literal(1, LitString("b")), Closure(2, 4), PushArg(1),
                                   Call(3, 2), Return(3)>>),
                      BasicBlock(<<Literal(1, LitString("a")), Builtin(2, "Puts"), PushArg(1),
                                   Call(3, 2), Return(3)>>)>>),
                  PutsWrapper, PutsWrapper, PutsWrapper, PutsWrapper>>)

\* f2(1, 1), the argument pushed twice before the closure is created
closure_after_push ==
    ProgramUnit(<<Function(0, 2, <<BasicBlock(<<
                      Literal(0, LitInteger(1)), PushArg(0), PushArg(0), Closure(1, 2),
                      Call(0, 1), Return(0)>>)>>),
                  PutsWrapper, Function(2, 2, <<BasicBlock(<<Drop(1), Return(0)>>)>>)>>)

\* puts("a"), then a closure of function 0 is made and dropped
closure_after_last_use ==
    ProgramUnit(<<Function(0, 4, <<BasicBlock(<<
        Literal(0, LitString("a")), Builtin(1, "Puts"), PushArg(0), Call(2, 1),
        Closure(3, 0), Return(2)>>)>>)>>)

\* eval_.rs, test_fib, with the argument `n` in place of 10
test_fib(n) ==
    ProgramUnit(<<
        Function(0, 6, <<BasicBlock(<<
            Literal(0, LitInteger(n)), Closure(1, 1), PushArg(0), Call(2, 1),
            Builtin(4, "Puti"), PushArg(2), Call(5, 4), Literal(3, LitUnit), Return(3)>>)>>),
        Function(1, 13, <<
            BasicBlock(<<Literal(3, LitInteger(2)), Builtin(2, "Lt"), PushArg(0), PushArg(3),
                         Call(1, 2), Branch(1, 1, 2)>>),
            BasicBlock(<<Return(0)>>),
            BasicBlock(<<Literal(7, LitInteger(-1)), Builtin(6, "Add"), PushArg(0), PushArg(7),
                         Call(5, 6), Closure(8, 1), PushArg(5), Call(9, 8),
                         Literal(11, LitInteger(-2)), Builtin(6, "Add"), PushArg(0),
                         PushArg(11), Call(10, 6), Closure(8, 1), PushArg(10), Call(12, 8),
                         Builtin(6, "Add"), PushArg(9), PushArg(12), Call(4, 6),
                         Return(4)>>)>>)>>)

TestProgramUnits ==
    {test_compile, test_compile_drop, test_compile_drop_arg, test_puts_with_artificial_jump,
     test_add, test_branch(TRUE), test_branch(FALSE), test_sum(10), test_lower_simple_var,
     closure_on_one_arm, closure_after_push, closure_after_last_use,
     test_fib(10)}

ProgramUnits == SmallProgramUnits \cup TestProgramUnits

(***************************************************************************)
(* The pipeline of eval_.rs: compile(), then eval1() of the result.  The   *)
(* input is also run as it is, without moves, for reference.               *)
(***************************************************************************)
NoProgram == ProgramUnit(<<>>)
NoMachine == [stack |-> <<>>, out |-> <<>>, status |-> "none", own_fault |-> "none",
              short_call |-> FALSE]

\* the parts of the state a specification does not use stay at these values
IdleMiddle ==
    /\ program_unit = NoProgram
    /\ analysed = NoProgram
    /\ compiled = NoProgram
    /\ ref = NoMachine
    /\ run = NoMachine
IdleFront == stmts = <<>> /\ lowered = NoProgram /\ ast_ok = FALSE /\ sir_ok = FALSE
IdleCheck == validated = "none" /\ checker = <<>>
IdleUnify == ty_ctx = <<>> /\ unify_call = <<>>
IdleIds == id_gens = <<>> /\ issued = <<>>
IdleResolve == parsed = <<>> /\ scope = <<>> /\ resolved = <<>>
IdlePass == fixpoint = <<>> /\ build = {}

Init ==
    /\ phase = "input"
    /\ program_unit \in ProgramUnits
    /\ analysed = NoProgram
    /\ compiled = NoProgram
    /\ ref = NoMachine
    /\ run = NoMachine
    /\ IdleFront /\ IdleCheck /\ IdleUnify /\ IdleIds /\ IdleResolve /\ IdlePass

\* `let program_unit = compile(&cctx, program_unit);`
Compile ==
    /\ phase = "input"
    /\ analysed' = ProgramUnit([i \in 1 .. Len(program_unit.functions) |->
                                   liveness(program_unit.functions[i])])
    /\ compiled' = compile(program_unit)
    /\ ref' = new_machine(program_unit)
    /\ run' = NoMachine
    /\ phase' = "reference"
    /\ UNCHANGED <<program_unit, stmts, lowered, ast_ok, sir_ok, side_vars>>

\* a step of the input under value semantics
RefStep ==
    /\ phase = "reference"
    /\ ref.status = "running"
    /\ ref' = eval1_step(program_unit, ref, FALSE)
    /\ UNCHANGED <<phase, program_unit, analysed, compiled, run, stmts, lowered, ast_ok, sir_ok, side_vars>>

\* `eval1(ctx, &program_unit)`
Eval1 ==
    /\ phase = "reference"
    /\ ref.status # "running"
    /\ run' = new_machine(compiled)
    /\ phase' = "eval1"
    /\ UNCHANGED <<program_unit, analysed, compiled, ref, stmts, lowered, ast_ok, sir_ok, side_vars>>

\* a step of the interpreter on the compiled program
RunStep ==
    /\ phase = "eval1"
    /\ run.status = "running"
    /\ run' = eval1_step(compiled, run, TRUE)
    /\ UNCHANGED <<phase, program_unit, analysed, compiled, ref, stmts, lowered, ast_ok, sir_ok, side_vars>>

Next == Compile \/ RefStep \/ Eval1 \/ RunStep

Spec == Init /\ [][Next]_vars

(***************************************************************************)
(* Properties of compile()                                                 *)
(***************************************************************************)
every_inst(pu, P(_)) ==
    \A fi \in 1 .. Len(pu.functions) :
        \A bi \in 1 .. Len(pu.functions[fi].body) :
            \A ii \in 1 .. Len(pu.functions[fi].body[bi].insts) :
                P(pu.functions[fi].body[bi].insts[ii])
some_inst(pu, P(_)) ==
    \E fi \in 1 .. Len(pu.functions) :
        \E bi \in 1 .. Len(pu.functions[fi].body) :
            \E ii \in 1 .. Len(pu.functions[fi].body[bi].insts) :
                P(pu.functions[fi].body[bi].insts[ii])

consumed_operand_dead(inst) ==
    (inst.kind \notin {"Copy", "Drop"} /\ moved_rhs_of(inst).some)
        => moved_rhs_of(inst).v \notin inst.live_out.v

\* C1 (linear use): in compile(P), the operand consumed by an instruction that
\* is neither Copy nor Drop (the condition of Branch, the operand of Return and
\* of PushArg, the callee of Call) is not in that instruction's live-out set.
C1_LinearUse == phase # "input" => every_inst(compiled, consumed_operand_dead)

\* A compiled program in which the pass had to insert a Copy before a move.
C1_Witness ==
    /\ phase # "input"
    /\ program_unit = test_compile
    /\ some_inst(compiled, LAMBDA inst : inst.kind = "Copy")
    /\ every_inst(compiled, consumed_operand_dead)

(***************************************************************************)
(* "Every variable is written before it is read on every path": the slots  *)
(* that are certainly filled at each point of a function run under value   *)
(* semantics, as the greatest solution of the forward equations.           *)
(***************************************************************************)
reads_of(inst) ==
    CASE inst.kind = "Copy" -> {inst.rhs}
      [] inst.kind = "Branch" -> {inst.cond}
      [] inst.kind = "Return" -> {inst.rhs}
      [] inst.kind = "Drop" -> {inst.rhs}
      [] inst.kind = "PushArg" -> {inst.value_ref}
      [] inst.kind = "Call" -> {inst.callee}
      [] OTHER -> {}

filled_after(inst, filled_before) ==
    IF inst.kind = "Drop" THEN filled_before \ {inst.rhs}
    ELSE IF lhs_of(inst).some THEN filled_before \cup {lhs_of(inst).v}
    ELSE filled_before

\* the slots filled after insts[i..], and whether every read found its slot filled
RECURSIVE filled_through(_, _, _, _)
filled_through(insts, i, filled_before, ok) ==
    IF i > Len(insts) THEN [filled |-> filled_before, ok |-> ok]
    ELSE filled_through(insts, i + 1, filled_after(insts[i], filled_before),
                        ok /\ reads_of(insts[i]) \subseteq filled_before)

successors(bb) ==
    LET last == bb.insts[Len(bb.insts)]
    IN CASE last.kind = "Jump" -> {last.target}
         [] last.kind = "Branch" -> {last.branch_then, last.branch_else}
         [] OTHER -> {}

RECURSIVE filled_at_entry(_, _)
filled_at_entry(function, filled_in) ==
    LET blocks == 1 .. Len(function.body)
        out(b) == filled_through(function.body[b].insts, 1, filled_in[b], TRUE).filled
        next == [b \in blocks |->
                   {v \in filled_in[b] :
                      \A p \in blocks : (b - 1) \in successors(function.body[p]) => v \in out(p)}]
    IN IF next = filled_in THEN filled_in ELSE filled_at_entry(function, next)

written_before_read(function) ==
    LET blocks == 1 .. Len(function.body)
        start == [b \in blocks |-> IF b = 1 THEN 0 .. (function.num_args - 1)
                                   ELSE 0 .. (function.num_vars - 1)]
        filled_in == filled_at_entry(function, start)
    IN \A b \in blocks : filled_through(function.body[b].insts, 1, filled_in[b], TRUE).ok

WrittenBeforeRead(pu) ==
    \A fi \in 1 .. Len(pu.functions) : written_before_read(pu.functions[fi])

\* C2 (single ownership): when every variable of P is written before it is
\* read, the run of compile(P) releases each value written into a slot exactly
\* once, by a moving instruction or a Drop, before the slot is written again
\* and before the function returns.
C2_SingleOwnership ==
    (phase = "eval1" /\ run.own_fault # "none") => ~WrittenBeforeRead(program_unit)

\* A run that released every value exactly once and made a host call.
C2_Witness ==
    /\ phase = "eval1"
    /\ program_unit = test_sum(10)
    /\ run.status = "returned"
    /\ run.own_fault = "none"

is_prefix(a, b) == Len(a) <= Len(b) /\ SubSeq(b, 1, Len(a)) = a

\* the host puts calls of the two runs agree: equal when both runs ended,
\* one a prefix of the other while a run is unfinished
same_puts(r1, r2) ==
    IF ended(r1) /\ ended(r2) THEN r1.out = r2.out
    ELSE is_prefix(r1.out, r2.out) \/ is_prefix(r2.out, r1.out)

\* C3 (semantic equivalence): when every variable of P is written before it is
\* read, the interpreter's run of compile(P) makes the same sequence of host
\* puts calls, with the same arguments, as the run of P under value semantics.
C3_SemanticEquivalence ==
    (phase = "eval1" /\ run.status # "running" /\ ~same_puts(ref, run))
        => ~WrittenBeforeRead(program_unit)

\* Both runs of the sum loop returned after the one host call puts("45").
C3_Witness ==
    /\ phase = "eval1"
    /\ program_unit = test_sum(10)
    /\ ref.status = "returned"
    /\ run.status = "returned"
    /\ run.out = <<"45">>
    /\ ref.out = run.out

C5_Idempotence == phase # "input" => compile(compiled) = compiled

\* A compiled program that the pass leaves as it is.
C5_Witness ==
    /\ phase # "input"
    /\ program_unit = test_compile
    /\ compile(compiled) = compiled

every_block(pu, P(_)) ==
    \A fi \in 1 .. Len(pu.functions) :
        \A bi \in 1 .. Len(pu.functions[fi].body) : P(pu.functions[fi].body[bi])

\* Drop{d} right after the definition of d at insts[i]
dropped_at_once(insts, i) ==
    /\ i < Len(insts)
    /\ insts[i + 1].kind = "Drop"
    /\ insts[i + 1].rhs = lhs_of(insts[i]).v

live_or_dropped(bb) ==
    \A i \in 1 .. Len(bb.insts) :
        lhs_of(bb.insts[i]).some =>
            \/ lhs_of(bb.insts[i]).v \in bb.insts[i].live_out.v
            \/ dropped_at_once(bb.insts, i)

\* what the pass puts into the output for one analysed instruction: a Copy
\* before it when it moves a variable of its live_out, a Drop after it when it
\* defines a variable that is not in its live_out
emitted_for(inst) ==
    1 + (IF moved_rhs_of(inst).some /\ moved_rhs_of(inst).v \in inst.live_out.v THEN 1 ELSE 0)
      + (IF lhs_of(inst).some /\ lhs_of(inst).v \notin inst.live_out.v THEN 1 ELSE 0)

RECURSIVE emitted_before(_, _)
emitted_before(insts, i) ==
    IF i = 1 THEN 0 ELSE emitted_before(insts, i - 1) + emitted_for(insts[i - 1])

\* the place in the output block `out` of the definition at before.insts[i],
\* a definition whose variable is not in its live_out
place_of_dead_definition(before, out, i) ==
    (Len(out.insts) - emitted_before(before.insts, Len(before.insts) + 1))
        + emitted_before(before.insts, i) + emitted_for(before.insts[i]) - 1

dead_definitions_dropped(before, out) ==
    \A i \in 1 .. Len(before.insts) :
        LET inst == before.insts[i]
            k == place_of_dead_definition(before, out, i)
        IN (lhs_of(inst).some /\ lhs_of(inst).v \notin inst.live_out.v) =>
              /\ k >= 1 /\ k < Len(out.insts)
              /\ out.insts[k].kind = inst.kind
              /\ lhs_of(out.insts[k]) = lhs_of(inst)
              /\ out.insts[k].live_out.v = inst.live_out.v \cup {lhs_of(inst).v}
              /\ dropped_at_once(out.insts, k)
              /\ out.insts[k + 1].live_out.v = inst.live_out.v

\* C6 (dead definitions are dropped): in compile(P), an instruction that defines
\* d has d in its live_out or is followed at once by Drop{d}; the Drop the pass
\* inserts after a definition whose variable was not in its live_out carries
\* that live_out, and the definition's live_out is extended with d.
C6_DeadDefinitionsDropped ==
    phase # "input" =>
        /\ every_block(compiled, live_or_dropped)
        /\ \A fi \in 1 .. Len(compiled.functions) :
              \A bi \in 1 .. Len(compiled.functions[fi].body) :
                  dead_definitions_dropped(analysed.functions[fi].body[bi],
                                           compiled.functions[fi].body[bi])

\* The compiled test_compile_drop: the dead `dummy` literal is followed by a Drop.
C6_Witness ==
    /\ phase # "input"
    /\ program_unit = test_compile_drop
    /\ 0 \notin analysed.functions[1].body[1].insts[1].live_out.v
    /\ compiled.functions[1].body[1].insts[1].kind = "Literal"
    /\ dropped_at_once(compiled.functions[1].body[1].insts, 1)
    /\ compiled.functions[1].body[1].insts[2].live_out.v = {}

\* the transfer table of the specification
spec_live_in(inst) ==
    (inst.live_out.v \ (IF lhs_of(inst).some THEN {lhs_of(inst).v} ELSE {})) \cup reads_of(inst)

liveness_sound(bb) ==
    /\ \A i \in 1 .. (Len(bb.insts) - 1) : bb.insts[i].live_out.v = spec_live_in(bb.insts[i + 1])
    /\ bb.live_in.v = spec_live_in(bb.insts[1])

\* C7 (liveness soundness): in compile(P), the live_out of an instruction is the
\* live-in its successor in the block has by the transfer table, and a block's
\* live_in is the live-in of its first instruction.
C7_LivenessSoundness == phase # "input" => every_block(compiled, liveness_sound)

\* A compiled program with an inserted Copy and inserted Drops whose sets agree
\* with the transfer table.
C7_Witness ==
    /\ phase # "input"
    /\ program_unit = test_compile
    /\ some_inst(compiled, LAMBDA inst : inst.kind = "Copy")
    /\ some_inst(compiled, LAMBDA inst : inst.kind = "Drop")
    /\ every_block(compiled, liveness_sound)

boundary_consistent(function) ==
    \A b \in 1 .. Len(function.body) :
        \A t \in successors(function.body[b]) :
            function.body[t + 1].live_in.v \subseteq block_live_out(function.body[b])

\* C8 (boundary consistency): in compile(P), for every edge from block B to
\* block B' (Jump target, Branch then-target, Branch else-target), the live_in
\* of B' is a subset of the live_out of B's terminator.
C8_BoundaryConsistency ==
    phase # "input" =>
        \A fi \in 1 .. Len(compiled.functions) : boundary_consistent(compiled.functions[fi])

\* The compiled sum loop: the live_in of the loop's condition block is not
\* empty and is within the live_out of both of its predecessors.
C8_Witness ==
    /\ phase # "input"
    /\ program_unit = test_sum(10)
    /\ compiled.functions[1].body[2].live_in.v = {0, 1}
    /\ boundary_consistent(compiled.functions[1])

(***************************************************************************)
(* ast.rs: resolved statements and expressions.  An Ident is represented   *)
(* by its resolved id; ids are handed out from 1 (cctx.rs), the builtins   *)
(* take the first two and every Let takes the next one.                    *)
(***************************************************************************)
let_(id, init) == [kind |-> "Let", id |-> id, init |-> init]
expr(e) == [kind |-> "Expr", expr |-> e, use_value |-> FALSE]
then_expr(e) == [kind |-> "Expr", expr |-> e, use_value |-> TRUE]

var(id) == [kind |-> "Var", id |-> id]
branch(cond, then, else_) == [kind |-> "Branch", cond |-> cond, then |-> then, else_ |-> else_]
while_(cond, body) == [kind |-> "While", cond |-> cond, body |-> body]
block(ss) == [kind |-> "Block", stmts |-> ss]
assign(id, rhs) == [kind |-> "Assign", id |-> id, rhs |-> rhs]
call(callee, args) == [kind |-> "Call", callee |-> callee, args |-> args]
integer_literal(value) == [kind |-> "IntegerLiteral", value |-> value]
add(lhs, rhs) == [kind |-> "BinOp", op |-> "Add", lhs |-> lhs, rhs |-> rhs]
lt(lhs, rhs) == [kind |-> "BinOp", op |-> "Lt", lhs |-> lhs, rhs |-> rhs]

\* IdGen::new: the first id handed out
first_id == 1

\* BuiltinIds::new: id -> BuiltinKind, in the order of BuiltinKind::iter()
builtins == (first_id :> "Puts") @@ (first_id + 1 :> "Puti")

(***************************************************************************)
(* ast_lowering.rs.  The lowering of this revision emits one CallBuiltin   *)
(* instruction for a builtin call or a binary operator.                    *)
(***************************************************************************)
CallBuiltin(lhs, builtin) ==
    [kind |-> "CallBuiltin", lhs |-> lhs, builtin |-> builtin, live_out |-> None]

RECURSIVE collect_vars_expr(_)
RECURSIVE collect_vars_stmts(_)
collect_vars_stmt(stmt) ==
    IF stmt.kind = "Let"
    THEN {stmt.id} \cup collect_vars_expr(stmt.init)
    ELSE collect_vars_expr(stmt.expr)

collect_vars_stmts(ss) ==
    UNION {collect_vars_stmt(ss[i]) : i \in DOMAIN ss}

collect_vars_expr(e) ==
    CASE e.kind = "Var" -> {e.id}
      [] e.kind = "Branch" ->
            collect_vars_expr(e.cond) \cup collect_vars_expr(e.then)
                \cup collect_vars_expr(e.else_)
      [] e.kind = "While" -> collect_vars_expr(e.cond) \cup collect_vars_expr(e.body)
      [] e.kind = "Block" -> collect_vars_stmts(e.stmts)
      [] e.kind = "Assign" -> {e.id} \cup collect_vars_expr(e.rhs)
      [] e.kind = "Call" ->
            collect_vars_expr(e.callee)
                \cup UNION {collect_vars_expr(e.args[i]) : i \in DOMAIN e.args}
      [] e.kind = "IntegerLiteral" -> {}
      [] e.kind = "BinOp" -> collect_vars_expr(e.lhs) \cup collect_vars_expr(e.rhs)

\* the lowering context: the function under construction, the current block,
\* and whether a todo!() was hit
push_inst(st, bb_id, inst) ==
    [st EXCEPT !.function.body[bb_id + 1].insts = Append(@, inst)]
open_block(st) ==
    [st EXCEPT !.function.body = Append(@, BasicBlock(<<>>)),
               !.bb_id = Len(st.function.body)]
fresh_var(st) == [st EXCEPT !.function.num_vars = @ + 1]

RECURSIVE lower_expr(_, _, _, _)
RECURSIVE lower_stmts_from(_, _, _, _, _)
RECURSIVE lower_args(_, _, _, _, _)

\* lower_expr2: a fresh temporary receives the value; returns it with the context
lower_expr2(var_id_map, st, e) ==
    [st |-> lower_expr(var_id_map, fresh_var(st), e, st.function.num_vars),
     result_var |-> st.function.num_vars]

lower_stmt(var_id_map, st, stmt, result_var) ==
    IF stmt.kind = "Let"
    THEN LET s1 == lower_expr(var_id_map, st, stmt.init, var_id_map[stmt.id])
         IN  IF result_var.some
             THEN push_inst(s1, s1.bb_id, Literal(result_var.v, LitUnit))
             ELSE s1
    ELSE LET dummy == ~stmt.use_value
             stmt_result_var ==
                 IF stmt.use_value THEN result_var.v ELSE st.function.num_vars
             s0 == IF dummy THEN fresh_var(st) ELSE st
             s1 == IF stmt.use_value /\ ~result_var.some
                   THEN [st EXCEPT !.status = "unwrap_none"]
                   ELSE lower_expr(var_id_map, s0, stmt.expr, stmt_result_var)
         IN  IF result_var.some /\ ~stmt.use_value
             THEN push_inst(s1, s1.bb_id, Literal(result_var.v, LitUnit))
             ELSE s1

lower_stmts_from(var_id_map, st, ss, i, result_var) ==
    IF i > Len(ss)
    THEN st
    ELSE LET is_last == i = Len(ss)
         IN  lower_stmts_from(var_id_map,
                 lower_stmt(var_id_map, st, ss[i],
                            IF is_last THEN Some(result_var) ELSE None),
                 ss, i + 1, result_var)

lower_stmts(var_id_map, st, ss, result_var) ==
    lower_stmts_from(var_id_map, st, ss, 1, result_var)

\* the arguments of a call, each into a fresh temporary, left to right
lower_args(var_id_map, st, args, i, arg_vars) ==
    IF i > Len(args)
    THEN [st |-> st, arg_vars |-> arg_vars]
    ELSE LET a == lower_expr2(var_id_map, st, args[i])
         IN  lower_args(var_id_map, a.st, args, i + 1, Append(arg_vars, a.result_var))

RECURSIVE push_args(_, _, _)
push_args(st, arg_vars, i) ==
    IF i > Len(arg_vars)
    THEN st
    ELSE push_args(push_inst(st, st.bb_id, PushArg(arg_vars[i])), arg_vars, i + 1)

\* lower_expr with the Branch of an `if` entering the continuation block
\* in place of the else block
lower_expr_else_to_cont(var_id_map, st, e, result_var) ==
    CASE e.kind = "Var" ->
            push_inst(st, st.bb_id, Copy(result_var, var_id_map[e.id]))
      [] e.kind = "Branch" ->
            LET c == lower_expr2(var_id_map, st, e.cond)
                cond_var == c.result_var
                branch_bb_id == c.st.bb_id
                then_bb_id == Len(c.st.function.body)
                s2 == lower_expr(var_id_map, open_block(c.st), e.then, result_var)
                else_bb_id == Len(s2.function.body)
                s3 == lower_expr(var_id_map, open_block(s2), e.else_, result_var)
                cont_bb_id == Len(s3.function.body)
                s4 == open_block(s3)
                s5 == push_inst(s4, branch_bb_id, Branch(cond_var, then_bb_id, cont_bb_id))
                s6 == push_inst(s5, then_bb_id, Jump(cont_bb_id))
            IN  push_inst(s6, else_bb_id, Jump(cont_bb_id))
      [] e.kind = "While" ->
            LET prev_bb_id == st.bb_id
                cond_bb_id == Len(st.function.body)
                s1 == lower_expr(var_id_map, open_block(st), e.cond, result_var)
                body_bb_id == Len(s1.function.body)
                s2 == lower_expr(var_id_map, open_block(s1), e.body, result_var)
                cont_bb_id == Len(s2.function.body)
                s3 == open_block(s2)
                s4 == push_inst(s3, prev_bb_id, Jump(cond_bb_id))
                s5 == push_inst(s4, cond_bb_id, Branch(result_var, body_bb_id, cont_bb_id))
            IN  push_inst(s5, body_bb_id, Jump(cond_bb_id))
      [] e.kind = "Block" -> lower_stmts(var_id_map, st, e.stmts, result_var)
      [] e.kind = "Assign" ->
            LET s1 == lower_expr(var_id_map, st, e.rhs, var_id_map[e.id])
            IN  push_inst(s1, s1.bb_id, Literal(result_var, LitUnit))
      [] e.kind = "Call" ->
            IF e.callee.kind = "Var" /\ e.callee.id \in DOMAIN builtins
            THEN LET a == lower_args(var_id_map, st, e.args, 1, <<>>)
                     s1 == push_args(a.st, a.arg_vars, 1)
                 IN  push_inst(s1, s1.bb_id, CallBuiltin(result_var, builtins[e.callee.id]))
            ELSE [st EXCEPT !.status = "todo"]
      [] e.kind = "IntegerLiteral" ->
            push_inst(st, st.bb_id, Literal(result_var, LitInteger(e.value)))
      [] e.kind = "BinOp" ->
            LET l == lower_expr2(var_id_map, st, e.lhs)
                r == lower_expr2(var_id_map, l.st, e.rhs)
                s1 == push_inst(r.st, r.st.bb_id, PushArg(l.result_var))
                s2 == push_inst(s1, s1.bb_id, PushArg(r.result_var))
            IN  push_inst(s2, s2.bb_id, CallBuiltin(result_var, e.op))

lower_expr(var_id_map, st, e, result_var) ==
    CASE e.kind = "Var" ->
            push_inst(st, st.bb_id, Copy(result_var, var_id_map[e.id]))
      [] e.kind = "Branch" ->
            LET c == lower_expr2(var_id_map, st, e.cond)
                cond_var == c.result_var
                branch_bb_id == c.st.bb_id
                then_bb_id == Len(c.st.function.body)
                s2 == lower_expr(var_id_map, open_block(c.st), e.then, result_var)
                else_bb_id == Len(s2.function.body)
                s3 == lower_expr(var_id_map, open_block(s2), e.else_, result_var)
                cont_bb_id == Len(s3.function.body)
                s4 == open_block(s3)
                s5 == push_inst(s4, branch_bb_id, Branch(cond_var, then_bb_id, else_bb_id))
                s6 == push_inst(s5, then_bb_id, Jump(cont_bb_id))
            IN  push_inst(s6, else_bb_id, Jump(cont_bb_id))
      [] e.kind = "While" ->
            LET prev_bb_id == st.bb_id
                cond_bb_id == Len(st.function.body)
                s1 == lower_expr(var_id_map, open_block(st), e.cond, result_var)
                body_bb_id == Len(s1.function.body)
                s2 == lower_expr(var_id_map, open_block(s1), e.body, result_var)
                cont_bb_id == Len(s2.function.body)
                s3 == open_block(s2)
                s4 == push_inst(s3, prev_bb_id, Jump(cond_bb_id))
                s5 == push_inst(s4, cond_bb_id, Branch(result_var, body_bb_id, cont_bb_id))
            IN  push_inst(s5, body_bb_id, Jump(cond_bb_id))
      [] e.kind = "Block" -> lower_stmts(var_id_map, st, e.stmts, result_var)
      [] e.kind = "Assign" ->
            LET s1 == lower_expr(var_id_map, st, e.rhs, var_id_map[e.id])
            IN  push_inst(s1, s1.bb_id, Literal(result_var, LitUnit))
      [] e.kind = "Call" ->
            IF e.callee.kind = "Var" /\ e.callee.id \in DOMAIN builtins
            THEN LET a == lower_args(var_id_map, st, e.args, 1, <<>>)
                     s1 == push_args(a.st, a.arg_vars, 1)
                 IN  push_inst(s1, s1.bb_id, CallBuiltin(result_var, builtins[e.callee.id]))
            ELSE [st EXCEPT !.status = "todo"]
      [] e.kind = "IntegerLiteral" ->
            push_inst(st, st.bb_id, Literal(result_var, LitInteger(e.value)))
      [] e.kind = "BinOp" ->
            LET l == lower_expr2(var_id_map, st, e.lhs)
                r == lower_expr2(var_id_map, l.st, e.rhs)
                s1 == push_inst(r.st, r.st.bb_id, PushArg(l.result_var))
                s2 == push_inst(s1, s1.bb_id, PushArg(r.result_var))
            IN  push_inst(s2, s2.bb_id, CallBuiltin(result_var, e.op))

\* the slot of every collected id, in ascending id order
var_id_map_of(ids) == [id \in ids |-> Cardinality({j \in ids : j < id})]

\* lower(): the context it ends in; .function is its result when .status = "ok"
lower(ss) ==
    LET num_args == 0
        ids == collect_vars_stmts(ss)
        var_id_map == var_id_map_of(ids)
        num_named_vars == num_args + Cardinality(ids)
        result_var == num_named_vars
        st0 == [function |-> Function(num_args, num_named_vars + 1, <<BasicBlock(<<>>)>>),
                bb_id |-> 0, status |-> "ok"]
        s1 == lower_stmts(var_id_map, st0, ss, result_var)
    IN  push_inst(s1, s1.bb_id, Return(result_var))

(***************************************************************************)
(* ntype.rs: types with meta variables, and their unification.  A TyCtx is *)
(* the sequence `vars` of optional bindings; var_id v is vars[v + 1].      *)
(***************************************************************************)
TypeMetaVar(var_id) == [kind |-> "MetaVar", var_id |-> var_id]
TypeUnit == [kind |-> "Unit"]
TypeString == [kind |-> "String"]
TypeInteger == [kind |-> "Integer"]
TypeBool == [kind |-> "Bool"]
TypeFunction(args, ret) == [kind |-> "Function", args |-> args, ret |-> ret]

\* Type::fresh: the context with one more unbound variable; the new type is
\* TypeMetaVar(Len(ty_vars))
fresh(ty_vars) == Append(ty_vars, None)

RECURSIVE resolve2(_, _)
resolve2(ty, ty_vars) ==
    IF ty.kind = "MetaVar" /\ ty_vars[ty.var_id + 1].some
    THEN resolve2(ty_vars[ty.var_id + 1].v, ty_vars)
    ELSE ty

RECURSIVE has_fv(_, _, _)
\* the occurs check that does not look into function types
has_fv_shallow(ty, var_id, ty_vars) ==
    LET t == resolve2(ty, ty_vars)
    IN  t.kind = "MetaVar" /\ t.var_id = var_id

has_fv(ty, var_id, ty_vars) ==
    LET t == resolve2(ty, ty_vars)
    IN  CASE t.kind = "MetaVar" -> t.var_id = var_id
          [] t.kind = "Function" ->
                (\E i \in DOMAIN t.args : has_fv(t.args[i], var_id, ty_vars))
                    \/ has_fv(t.ret, var_id, ty_vars)
          [] OTHER -> FALSE

RECURSIVE unify_impl(_, _, _)
RECURSIVE unify_impl_args(_, _, _, _)
\* the arguments of two function types taken as equal without a look
unify_impl_args_skipped(args1, args2, i, ty_vars) == [ok |-> TRUE, vars |-> ty_vars]

\* the loop over zipped arguments, stopping at the first failure
unify_impl_args(args1, args2, i, ty_vars) ==
    IF i > Len(args1)
    THEN [ok |-> TRUE, vars |-> ty_vars]
    ELSE LET r == unify_impl(args1[i], args2[i], ty_vars)
         IN  IF r.ok THEN unify_impl_args(args1, args2, i + 1, r.vars) ELSE r

unify_impl(self, other, ty_vars) ==
    LET ty1 == resolve2(self, ty_vars)
        ty2 == resolve2(other, ty_vars)
        Ok == [ok |-> TRUE, vars |-> ty_vars]
        UnificationFailure == [ok |-> FALSE, vars |-> ty_vars]
    IN  CASE ty1.kind = "MetaVar" /\ ty2.kind = "MetaVar" /\ ty1.var_id = ty2.var_id -> Ok
          [] ty1.kind = "MetaVar" /\ ~(ty2.kind = "MetaVar" /\ ty1.var_id = ty2.var_id) ->
                IF has_fv(ty2, ty1.var_id, ty_vars)
                THEN UnificationFailure
                ELSE [ok |-> TRUE, vars |-> [ty_vars EXCEPT ![ty1.var_id + 1] = Some(ty2)]]
          [] ty1.kind # "MetaVar" /\ ty2.kind = "MetaVar" ->
                IF has_fv(ty1, ty2.var_id, ty_vars)
                THEN UnificationFailure
                ELSE [ok |-> TRUE, vars |-> [ty_vars EXCEPT ![ty2.var_id + 1] = Some(ty1)]]
          [] ty1.kind = "Function" /\ ty2.kind = "Function" ->
                IF Len(ty1.args) # Len(ty2.args)
                THEN UnificationFailure
                ELSE LET r == unify_impl_args(ty1.args, ty2.args, 1, ty_vars)
                     IN  IF r.ok THEN unify_impl(ty1.ret, ty2.ret, r.vars) ELSE r
          [] OTHER ->
                IF ty1.kind = ty2.kind /\ ty1.kind \in {"Unit", "String", "Integer", "Bool"}
                THEN Ok
                ELSE UnificationFailure

unify(self, other, ty_vars) == unify_impl(self, other, ty_vars)

\* Type::resolve
resolve(ty, ty_vars) == resolve2(ty, ty_vars)

RECURSIVE view_eq(_, _, _)
\* TypeView::eq of ty1.view(ctx) and ty2.view(ctx)
view_eq(type1, type2, ty_vars) ==
    LET ty1 == resolve(type1, ty_vars)
        ty2 == resolve(type2, ty_vars)
    IN  CASE ty1.kind = "MetaVar" /\ ty2.kind = "MetaVar" -> ty1.var_id = ty2.var_id
          [] ty1.kind = "Function" /\ ty2.kind = "Function" ->
                /\ Len(ty1.args) = Len(ty2.args)
                /\ \A i \in DOMAIN ty1.args : view_eq(ty1.args[i], ty2.args[i], ty_vars)
                /\ view_eq(ty1.ret, ty2.ret, ty_vars)
          [] OTHER ->
                ty1.kind = ty2.kind /\ ty1.kind \in {"Unit", "String", "Integer", "Bool"}

(***************************************************************************)
(* ast_typecheck.rs.  A TypeChecker is [ty_ctx, var_types]; the result of  *)
(* a step adds `ty`, the type it yields, and `status`: "ok", or            *)
(* "unification_failure" for Err(UnificationFailure), or "unwrap_none" for *)
(* the panic of typecheck_ident on an id without a recorded type.          *)
(***************************************************************************)
TypeChecker_new ==
    [ty_ctx |-> <<>>, var_types |-> <<>>, ty |-> TypeUnit, status |-> "ok"]

yields(tc, ty) == [tc EXCEPT !.ty = ty]

\* `a.unify(&b, self.ty_ctx)?`
try_unify(tc, a, b) ==
    IF tc.status # "ok"
    THEN tc
    ELSE LET r == unify(a, b, tc.ty_ctx)
         IN  IF r.ok
             THEN [tc EXCEPT !.ty_ctx = r.vars]
             ELSE [tc EXCEPT !.status = "unification_failure"]

typecheck_ident(tc, id) ==
    IF tc.status # "ok"
    THEN tc
    ELSE IF id \in DOMAIN tc.var_types
         THEN yields(tc, tc.var_types[id])
         ELSE [tc EXCEPT !.status = "unwrap_none"]

RECURSIVE typecheck_expr(_, _)
RECURSIVE typecheck_stmts_from(_, _, _)
RECURSIVE typecheck_args(_, _, _, _)

typecheck_stmt(tc, stmt) ==
    IF stmt.kind = "Expr"
    THEN LET t == typecheck_expr(tc, stmt.expr)
         IN  IF t.status # "ok" THEN t
             ELSE IF stmt.use_value THEN t ELSE yields(t, TypeUnit)
    ELSE LET t == typecheck_expr(tc, stmt.init)
         IN  IF t.status # "ok" THEN t
             ELSE yields([t EXCEPT !.var_types = (stmt.id :> t.ty) @@ @], TypeUnit)

typecheck_stmts_from(tc, ss, i) ==
    IF i > Len(ss) \/ tc.status # "ok"
    THEN tc
    ELSE typecheck_stmts_from(typecheck_stmt(tc, ss[i]), ss, i + 1)

typecheck_stmts(tc, ss) == typecheck_stmts_from(yields(tc, TypeUnit), ss, 1)

\* the types of the arguments of a call, left to right
typecheck_args(tc, args, i, arg_tys) ==
    IF i > Len(args) \/ tc.status # "ok"
    THEN [tc |-> tc, arg_tys |-> arg_tys]
    ELSE LET t == typecheck_expr(tc, args[i])
         IN  typecheck_args(t, args, i + 1, Append(arg_tys, t.ty))

typecheck_expr(tc, e) ==
    IF tc.status # "ok"
    THEN tc
    ELSE
    CASE e.kind = "Var" -> typecheck_ident(tc, e.id)
      [] e.kind = "Branch" ->
            LET c == typecheck_expr(tc, e.cond)
                c1 == try_unify(c, c.ty, TypeBool)
                th == typecheck_expr(c1, e.then)
                el == typecheck_expr(th, e.else_)
            IN  yields(try_unify(el, th.ty, el.ty), th.ty)
      [] e.kind = "While" ->
            LET c == typecheck_expr(tc, e.cond)
                c1 == try_unify(c, c.ty, TypeBool)
                b == typecheck_expr(c1, e.body)
            IN  yields(try_unify(b, b.ty, TypeUnit), TypeUnit)
      [] e.kind = "Block" -> typecheck_stmts(tc, e.stmts)
      [] e.kind = "Assign" ->
            LET l == typecheck_ident(tc, e.id)
                r == typecheck_expr(l, e.rhs)
            IN  yields(try_unify(r, l.ty, r.ty), TypeUnit)
      [] e.kind = "Call" ->
            LET c == typecheck_expr(tc, e.callee)
                a == typecheck_args(c, e.args, 1, <<>>)
                ret_ty == TypeMetaVar(Len(a.tc.ty_ctx))
                t == [a.tc EXCEPT !.ty_ctx = fresh(@)]
                func_ty == TypeFunction(a.arg_tys, ret_ty)
            IN  IF a.tc.status # "ok" THEN a.tc
                ELSE yields(try_unify(t, c.ty, func_ty), ret_ty)
      [] e.kind = "IntegerLiteral" -> yields(tc, TypeInteger)
      [] e.kind = "StringLiteral" -> yields(tc, TypeString)
      [] e.kind = "BinOp" ->
            LET op_ty == IF e.op = "Add"
                         THEN TypeFunction(<<TypeInteger, TypeInteger>>, TypeInteger)
                         ELSE TypeFunction(<<TypeInteger, TypeInteger>>, TypeBool)
                l == typecheck_expr(tc, e.lhs)
                r == typecheck_expr(l, e.rhs)
                ret_ty == TypeMetaVar(Len(r.ty_ctx))
                t == [r EXCEPT !.ty_ctx = fresh(@)]
            IN  IF r.status # "ok" THEN r
                ELSE yields(try_unify(t, op_ty, TypeFunction(<<l.ty, r.ty>>, ret_ty)), ret_ty)

typecheck_program(tc, program) ==
    LET t == typecheck_stmts(tc, program)
    IN  try_unify(t, t.ty, TypeUnit)

\* ast_typecheck::typecheck: Ok(()) or not
ast_typecheck(program) == typecheck_program(TypeChecker_new, program).status = "ok"

(***************************************************************************)
(* sir_typecheck.rs.  Its Type has the same constructors as the one of     *)
(* ntype.rs, with Var in place of MetaVar; one type per variable slot for  *)
(* the whole function.                                                     *)
(***************************************************************************)
TypeVar(var_id) == [kind |-> "Var", var_id |-> var_id]

TyCtx_fresh(ty_vars) == Append(ty_vars, None)

RECURSIVE expand_shallow(_, _)
expand_shallow(ty_vars, ty) ==
    IF ty.kind = "Var" /\ ty_vars[ty.var_id + 1].some
    THEN expand_shallow(ty_vars, ty_vars[ty.var_id + 1].v)
    ELSE ty

RECURSIVE has_ty_var(_, _, _)
has_ty_var(ty_vars, ty, needle_id) ==
    CASE ty.kind = "Var" ->
            IF ty.var_id = needle_id THEN TRUE
            ELSE IF ty_vars[ty.var_id + 1].some
                 THEN has_ty_var(ty_vars, ty_vars[ty.var_id + 1].v, needle_id)
                 ELSE FALSE
      [] ty.kind = "Function" ->
            (\E i \in DOMAIN ty.args : has_ty_var(ty_vars, ty.args[i], needle_id))
                \/ has_ty_var(ty_vars, ty.ret, needle_id)
      [] OTHER -> FALSE

RECURSIVE TyCtx_unify(_, _, _)
RECURSIVE TyCtx_unify_args(_, _, _, _)
TyCtx_unify_args(ty_vars, args1, args2, i) ==
    IF i > Len(args1)
    THEN [ok |-> TRUE, vars |-> ty_vars]
    ELSE LET r == TyCtx_unify(ty_vars, args1[i], args2[i])
         IN  IF r.ok THEN TyCtx_unify_args(r.vars, args1, args2, i + 1) ELSE r

TyCtx_unify(ty_vars, ty1, ty2) ==
    LET Ok == [ok |-> TRUE, vars |-> ty_vars]
        TypeError == [ok |-> FALSE, vars |-> ty_vars]
    IN  IF ty1.kind = "Var" /\ ty_vars[ty1.var_id + 1].some
        THEN TyCtx_unify(ty_vars, ty_vars[ty1.var_id + 1].v, ty2)
        ELSE IF ty2.kind = "Var" /\ ty_vars[ty2.var_id + 1].some
        THEN TyCtx_unify(ty_vars, ty1, ty_vars[ty2.var_id + 1].v)
        ELSE
        CASE ty1.kind = "Var" /\ ty2.kind = "Var" /\ ty1.var_id = ty2.var_id -> Ok
          [] ty1.kind = "Var" /\ ~(ty2.kind = "Var" /\ ty1.var_id = ty2.var_id) ->
                IF has_ty_var(ty_vars, ty2, ty1.var_id)
                THEN TypeError
                ELSE [ok |-> TRUE, vars |-> [ty_vars EXCEPT ![ty1.var_id + 1] = Some(ty2)]]
          [] ty1.kind # "Var" /\ ty2.kind = "Var" ->
                IF has_ty_var(ty_vars, ty1, ty2.var_id)
                THEN TypeError
                ELSE [ok |-> TRUE, vars |-> [ty_vars EXCEPT ![ty2.var_id + 1] = Some(ty1)]]
          [] ty1.kind = "Function" /\ ty2.kind = "Function" ->
                IF Len(ty1.args) # Len(ty2.args)
                THEN TypeError
                ELSE LET r == TyCtx_unify_args(ty_vars, ty1.args, ty2.args, 1)
                     IN  IF r.ok THEN TyCtx_unify(r.vars, ty1.ret, ty2.ret) ELSE r
          [] OTHER ->
                IF ty1.kind = ty2.kind /\ ty1.kind \in {"Unit", "String", "Integer", "Bool"}
                THEN Ok
                ELSE TypeError

of_literal(literal) == [kind |-> literal.ty]

builtin_type(f) ==
    CASE f = "Add" -> TypeFunction(<<TypeInteger, TypeInteger>>, TypeInteger)
      [] f = "Lt" -> TypeFunction(<<TypeInteger, TypeInteger>>, TypeBool)
      [] f = "Puts" -> TypeFunction(<<TypeString>>, TypeUnit)
      [] f = "Puti" -> TypeFunction(<<TypeInteger>>, TypeUnit)

\* the checker's position inside a function: the type context, the types of
\* the pushed arguments, and whether an Err(TypeError) was returned
unified(c, ty1, ty2) ==
    LET r == TyCtx_unify(c.ty_vars, ty1, ty2)
    IN  [c EXCEPT !.ty_vars = r.vars, !.ok = r.ok]

\* Call_ where the arguments are zipped with the parameters and a difference
\* in their number goes unnoticed
typecheck_call_zip_only(c, state_vars, lhs, callee_type) ==
    LET callee == expand_shallow(c.ty_vars, callee_type)
    IN  IF callee.kind # "Function" THEN [c EXCEPT !.ok = FALSE]
        ELSE LET n == IF Len(c.args) < Len(callee.args) THEN Len(c.args)
                      ELSE Len(callee.args)
                 r == TyCtx_unify_args(c.ty_vars, SubSeq(c.args, 1, n),
                                       SubSeq(callee.args, 1, n), 1)
                 c1 == [c EXCEPT !.ty_vars = r.vars, !.ok = r.ok]
             IN  IF ~r.ok THEN c1
                 ELSE [unified(c1, state_vars[lhs + 1], callee.ret) EXCEPT !.args = <<>>]

\* Call_ with the callee's type at hand: arity, arguments, result
typecheck_call(c, state_vars, lhs, callee_type) ==
    LET callee == expand_shallow(c.ty_vars, callee_type)
    IN  IF callee.kind # "Function" THEN [c EXCEPT !.ok = FALSE]
        ELSE IF Len(c.args) # Len(callee.args) THEN [c EXCEPT !.ok = FALSE]
        ELSE LET r == TyCtx_unify_args(c.ty_vars, c.args, callee.args, 1)
                 c1 == [c EXCEPT !.ty_vars = r.vars, !.ok = r.ok]
             IN  IF ~r.ok THEN c1
                 ELSE [unified(c1, state_vars[lhs + 1], callee.ret) EXCEPT !.args = <<>>]

\* CallBuiltin: the Builtin arm and the Call_ arm in one instruction
typecheck_call_builtin(c, state_vars, inst) ==
    typecheck_call(c, state_vars, inst.lhs, builtin_type(inst.builtin))

\* the slots and the signature an arm indexes: state.vars[..] and pctx.functions[..]
indexed_vars(inst) ==
    CASE inst.kind = "Branch" -> {inst.cond}
      [] inst.kind = "Return" -> {inst.rhs}
      [] inst.kind = "Copy" -> {inst.lhs, inst.rhs}
      [] inst.kind \in {"Literal", "Closure", "Builtin", "CallBuiltin"} -> {inst.lhs}
      [] inst.kind = "PushArg" -> {inst.value_ref}
      [] inst.kind = "Call" -> {inst.lhs, inst.callee}
      [] OTHER -> {}

index_in_bounds(pctx, state_vars, inst) ==
    /\ \A v \in indexed_vars(inst) : v < Len(state_vars)
    /\ inst.kind = "Closure" => inst.function_id < Len(pctx)

\* one instruction of typecheck_bb; an index out of bounds panics, so that no
\* Ok is returned
typecheck_inst(c, pctx, state_vars, function, inst) ==
    IF ~index_in_bounds(pctx, state_vars, inst) THEN [c EXCEPT !.ok = FALSE] ELSE
    CASE inst.kind = "Jump" ->
            IF inst.target >= Len(function.body) THEN [c EXCEPT !.ok = FALSE] ELSE c
      [] inst.kind = "Branch" ->
            IF inst.branch_then >= Len(function.body) THEN [c EXCEPT !.ok = FALSE]
            ELSE IF inst.branch_else >= Len(function.body) THEN [c EXCEPT !.ok = FALSE]
            ELSE unified(c, state_vars[inst.cond + 1], TypeBool)
      [] inst.kind = "Return" -> unified(c, state_vars[inst.rhs + 1], c.return_type)
      [] inst.kind = "Copy" -> unified(c, state_vars[inst.lhs + 1], state_vars[inst.rhs + 1])
      [] inst.kind = "Drop" -> c
      [] inst.kind = "Literal" -> unified(c, state_vars[inst.lhs + 1], of_literal(inst.value))
      [] inst.kind = "Closure" ->
            IF c.args # <<>> THEN [c EXCEPT !.ok = FALSE]  \* todo!()
            ELSE LET function_type == pctx[inst.function_id + 1]
                 IN  unified(c, state_vars[inst.lhs + 1],
                             TypeFunction(function_type.args, function_type.ret))
      [] inst.kind = "Builtin" ->
            unified(c, state_vars[inst.lhs + 1], builtin_type(inst.builtin))
      [] inst.kind = "PushArg" ->
            [c EXCEPT !.args = Append(@, state_vars[inst.value_ref + 1])]
      [] inst.kind = "Call" ->
            typecheck_call(c, state_vars, inst.lhs, state_vars[inst.callee + 1])
      [] inst.kind = "CallBuiltin" -> typecheck_call_builtin(c, state_vars, inst)

RECURSIVE typecheck_insts(_, _, _, _, _, _)
typecheck_insts(c, pctx, state_vars, function, insts, i) ==
    IF i > Len(insts) \/ ~c.ok
    THEN c
    ELSE typecheck_insts(typecheck_inst(c, pctx, state_vars, function, insts[i]),
                         pctx, state_vars, function, insts, i + 1)

\* `let mut args = vec![];` at the start of a block
block_start(c) == [c EXCEPT !.args = <<>>]

\* the end of a block, with every pending argument forgiven
block_end_lenient(c) == c

\* the end of a block: `if !args.is_empty() { return Err(TypeError); }`
block_end(c) == IF c.ok /\ c.args # <<>> THEN [c EXCEPT !.ok = FALSE] ELSE c

typecheck_bb(c, pctx, state_vars, function, bb) ==
    block_end(typecheck_insts(block_start(c), pctx, state_vars, function, bb.insts, 1))

RECURSIVE typecheck_bbs(_, _, _, _, _)
typecheck_bbs(c, pctx, state_vars, function, bb_id) ==
    IF bb_id >= Len(function.body) \/ ~c.ok
    THEN c
    ELSE typecheck_bbs(typecheck_bb(c, pctx, state_vars, function, function.body[bb_id + 1]),
                       pctx, state_vars, function, bb_id + 1)

RECURSIVE fresh_types(_, _)
\* n fresh variables: ids Len(ty_vars) .. Len(ty_vars) + n - 1
fresh_types(ty_vars, n) == IF n = 0 THEN ty_vars ELSE fresh_types(TyCtx_fresh(ty_vars), n - 1)

\* State: a fresh type variable per slot
State_vars(ty_vars, function) ==
    [v \in 1..function.num_vars |-> TypeVar(Len(ty_vars) + v - 1)]

\* the checker's context once the parameter slots are unified with the signature
function_entry(ty_vars, function, function_type) ==
    LET state_vars == State_vars(ty_vars, function)
        c0 == [ty_vars |-> fresh_types(ty_vars, function.num_vars), args |-> <<>>,
               ok |-> TRUE, return_type |-> function_type.ret]
        n == IF function.num_vars < Len(function_type.args)
             THEN function.num_vars ELSE Len(function_type.args)
        a == TyCtx_unify_args(c0.ty_vars, SubSeq(state_vars, 1, n),
                              SubSeq(function_type.args, 1, n), 1)
    IN  [c0 EXCEPT !.ty_vars = a.vars, !.ok = a.ok]

typecheck_function(ty_vars, pctx, function, function_type) ==
    typecheck_bbs(function_entry(ty_vars, function, function_type), pctx,
                  State_vars(ty_vars, function), function, 0)

RECURSIVE typecheck_functions(_, _, _, _)
typecheck_functions(ty_vars, pctx, functions, i) ==
    IF i > Len(functions)
    THEN TRUE
    ELSE LET r == typecheck_function(ty_vars, pctx, functions[i], pctx[i])
         IN  r.ok /\ typecheck_functions(r.ty_vars, pctx, functions, i + 1)

RECURSIVE signatures(_, _, _, _)
\* PTyCtx: per function, fresh argument types, then a fresh return type
signatures(ty_vars, functions, i, pctx) ==
    IF i > Len(functions)
    THEN [ty_vars |-> ty_vars, pctx |-> pctx]
    ELSE LET num_args == functions[i].num_args
             base == Len(ty_vars)
             ft == [args |-> [a \in 1..num_args |-> TypeVar(base + a - 1)],
                    ret |-> TypeVar(base + num_args)]
         IN  signatures(fresh_types(ty_vars, num_args + 1), functions, i + 1,
                        Append(pctx, ft))

\* sir_typecheck::typecheck: Ok(()) or not
sir_typecheck(pu) ==
    LET s == signatures(<<>>, pu.functions, 1, <<>>)
    IN  typecheck_functions(s.ty_vars, s.pctx, pu.functions, 1)

(***************************************************************************)
(* Resolved programs.  x_id is the id of the one variable, bound by a       *)
(* leading Let; expressions nest control flow up to two levels, in the     *)
(* condition, in either arm and in the loop body.  StringLiteral is left   *)
(* out: lower_expr of this revision has no arm for it.                     *)
(***************************************************************************)
x_id == first_id + Cardinality(DOMAIN builtins)

SimpleExprs ==
    {integer_literal(1), var(x_id), assign(x_id, integer_literal(2)), block(<<>>)}

SimpleConds == {lt(var(x_id), integer_literal(1))}

ControlExprs ==
    {branch(c, a, b) : c \in SimpleConds, a \in SimpleExprs, b \in SimpleExprs}
        \cup {while_(c, b) : c \in SimpleConds, b \in SimpleExprs}

Conds ==
    SimpleConds
        \cup {branch(c, c, lt(integer_literal(1), var(x_id))) : c \in SimpleConds}

NestedExprs ==
    {branch(c, a, b) : c \in Conds, a \in SimpleExprs \cup ControlExprs, b \in SimpleExprs}
        \cup {branch(c, a, b) : c \in SimpleConds, a \in SimpleExprs, b \in ControlExprs}
        \cup {while_(c, b) : c \in Conds, b \in SimpleExprs \cup ControlExprs}
        \cup {block(<<expr(a), then_expr(b)>>) : a \in ControlExprs, b \in SimpleExprs}

\* ast_lowering.rs tests
test_lower_add == <<then_expr(add(integer_literal(1), integer_literal(2)))>>
test_lower_simple_var_stmts == <<let_(x_id, integer_literal(42)), then_expr(var(x_id))>>
test_lower_branch ==
    <<let_(x_id, integer_literal(42)),
      then_expr(branch(var(x_id), integer_literal(1), integer_literal(2)))>>
test_lower_loop ==
    <<let_(x_id, integer_literal(42)),
      then_expr(while_(lt(integer_literal(-1), var(x_id)),
                       block(<<then_expr(assign(x_id, add(var(x_id), integer_literal(-1))))>>)))>>
test_puti == <<then_expr(call(var(first_id + 1), <<integer_literal(42)>>))>>
\* ast_typecheck.rs tests
test_typecheck_stmts ==
    <<expr(add(integer_literal(1), integer_literal(2))),
      expr(add(integer_literal(1), integer_literal(2)))>>

ResolvedPrograms ==
    {<<let_(x_id, integer_literal(42)), then_expr(e)>> :
        e \in SimpleExprs \cup ControlExprs \cup NestedExprs}
    \cup {<<let_(x_id, integer_literal(42)), expr(e)>> :
        e \in SimpleExprs \cup ControlExprs \cup NestedExprs}
    \cup {<<>>, test_lower_add, test_lower_simple_var_stmts, test_lower_branch,
          test_lower_loop, test_puti, test_typecheck_stmts,
          <<then_expr(call(integer_literal(1), <<>>))>>}

(***************************************************************************)
(* The front end as a state machine: the AST type checker, lower(), and    *)
(* the SIR type checker on the one-function program unit of the result.    *)
(***************************************************************************)
InitLower ==
    /\ phase = "resolved"
    /\ stmts \in ResolvedPrograms
    /\ lowered = NoProgram
    /\ ast_ok = FALSE
    /\ sir_ok = FALSE
    /\ IdleMiddle /\ IdleCheck /\ IdleUnify /\ IdleIds /\ IdleResolve /\ IdlePass

AstTypecheck ==
    /\ phase = "resolved"
    /\ ast_ok' = ast_typecheck(stmts)
    /\ phase' = "typechecked"
    /\ UNCHANGED <<program_unit, analysed, compiled, ref, run, stmts, lowered, sir_ok, side_vars>>

Lower ==
    /\ phase = "typechecked"
    /\ LET r == lower(stmts)
       IN  IF r.status = "ok"
           THEN lowered' = r.function /\ phase' = "lowered"
           ELSE lowered' = lowered /\ phase' = "lower_panicked"
    /\ UNCHANGED <<program_unit, analysed, compiled, ref, run, stmts, ast_ok, sir_ok, side_vars>>

SirTypecheck ==
    /\ phase = "lowered"
    /\ sir_ok' = sir_typecheck(ProgramUnit(<<lowered>>))
    /\ phase' = "sir_typechecked"
    /\ UNCHANGED <<program_unit, analysed, compiled, ref, run, stmts, lowered, ast_ok, side_vars>>

NextLower == AstTypecheck \/ Lower \/ SirTypecheck

SpecLower == InitLower /\ [][NextLower]_vars

(***************************************************************************)
(* Properties of the front end                                             *)
(***************************************************************************)
\* the block ends in a tail instruction and has no tail before its last position
well_formed_block(bb) ==
    /\ Len(bb.insts) > 0
    /\ is_tail(bb.insts[Len(bb.insts)])
    /\ \A i \in 1..(Len(bb.insts) - 1) : ~is_tail(bb.insts[i])

well_formed(function) ==
    \A b \in DOMAIN function.body : well_formed_block(function.body[b])

is_control(e) == e.kind \in {"Branch", "While"}

RECURSIVE has_control(_)
\* a Branch or While occurs somewhere in the expression
has_control(e) ==
    CASE is_control(e) -> TRUE
      [] e.kind = "Block" ->
            \E i \in DOMAIN e.stmts :
                has_control(IF e.stmts[i].kind = "Let" THEN e.stmts[i].init
                            ELSE e.stmts[i].expr)
      [] e.kind = "Assign" -> has_control(e.rhs)
      [] e.kind = "Call" -> \E i \in DOMAIN e.args : has_control(e.args[i])
      [] e.kind = "BinOp" -> has_control(e.lhs) \/ has_control(e.rhs)
      [] OTHER -> FALSE

RECURSIVE has_nested_control(_)
\* a Branch or While occurs inside the condition, an arm or the body of another
has_nested_control(e) ==
    CASE e.kind = "Branch" ->
            has_control(e.cond) \/ has_control(e.then) \/ has_control(e.else_)
      [] e.kind = "While" -> has_control(e.cond) \/ has_control(e.body)
      [] e.kind = "Block" ->
            \E i \in DOMAIN e.stmts :
                has_nested_control(IF e.stmts[i].kind = "Let" THEN e.stmts[i].init
                                   ELSE e.stmts[i].expr)
      [] e.kind = "Assign" -> has_nested_control(e.rhs)
      [] e.kind = "Call" -> \E i \in DOMAIN e.args : has_nested_control(e.args[i])
      [] e.kind = "BinOp" -> has_nested_control(e.lhs) \/ has_nested_control(e.rhs)
      [] OTHER -> FALSE

RECURSIVE has_while(_)
has_while(e) ==
    CASE e.kind = "While" -> TRUE
      [] e.kind = "Branch" -> has_while(e.cond) \/ has_while(e.then) \/ has_while(e.else_)
      [] e.kind = "Block" ->
            \E i \in DOMAIN e.stmts :
                has_while(IF e.stmts[i].kind = "Let" THEN e.stmts[i].init
                          ELSE e.stmts[i].expr)
      [] e.kind = "Assign" -> has_while(e.rhs)
      [] e.kind = "Call" -> \E i \in DOMAIN e.args : has_while(e.args[i])
      [] e.kind = "BinOp" -> has_while(e.lhs) \/ has_while(e.rhs)
      [] OTHER -> FALSE

has_lowered == phase \in {"lowered", "sir_typechecked"}

\* C9: structural well-formedness after lowering.  For every resolved program,
\* nested Branch and While included, every basic block of lower()'s result ends
\* in exactly one tail instruction and no tail instruction appears before the
\* last position of a block.
C9_WellFormedAfterLowering == has_lowered => well_formed(lowered)

\* lower() has returned on a program that nests one Branch or While in another
C9_Witness == has_lowered /\ has_nested_control(block(stmts))

\* C10: typing soundness preservation.  For every resolved program that the AST
\* type checker accepts, While loops included, the SIR produced by lowering it
\* is accepted by the SIR type checker.
C10_TypingPreserved == (phase = "sir_typechecked" /\ ast_ok) => sir_ok

\* both checkers have run on an accepted program that contains a While loop
C10_Witness == phase = "sir_typechecked" /\ ast_ok /\ has_while(block(stmts))

(***************************************************************************)
(* sir_validation.rs: the result is "Ok" or the name of the first error    *)
(***************************************************************************)
validate_inst(pu, function, inst) ==
    CASE inst.kind = "Jump" ->
            IF inst.target >= Len(function.body) THEN "InvalidTargetBlock" ELSE "Ok"
      [] inst.kind = "Branch" ->
            IF inst.cond >= function.num_vars THEN "InvalidVariableId"
            ELSE IF inst.branch_then >= Len(function.body)
                    \/ inst.branch_else >= Len(function.body)
                 THEN "InvalidTargetBlock" ELSE "Ok"
      [] inst.kind = "Return" ->
            IF inst.rhs >= function.num_vars THEN "InvalidVariableId" ELSE "Ok"
      [] inst.kind = "Copy" ->
            IF inst.lhs >= function.num_vars \/ inst.rhs >= function.num_vars
            THEN "InvalidVariableId" ELSE "Ok"
      [] inst.kind = "Drop" ->
            IF inst.rhs >= function.num_vars THEN "InvalidVariableId" ELSE "Ok"
      [] inst.kind = "Literal" ->
            IF inst.lhs >= function.num_vars THEN "InvalidVariableId" ELSE "Ok"
      [] inst.kind = "Closure" ->
            IF inst.lhs >= function.num_vars THEN "InvalidVariableId"
            ELSE IF inst.function_id >= Len(pu.functions) THEN "InvalidFunctionId"
            ELSE "Ok"
      [] inst.kind = "Builtin" ->
            IF inst.lhs >= function.num_vars THEN "InvalidVariableId" ELSE "Ok"
      [] inst.kind = "PushArg" ->
            IF inst.value_ref >= function.num_vars THEN "InvalidVariableId" ELSE "Ok"
      [] inst.kind = "Call" ->
            IF inst.lhs >= function.num_vars \/ inst.callee >= function.num_vars
            THEN "InvalidVariableId" ELSE "Ok"

RECURSIVE BasicBlock_validate_insts(_, _, _, _)
\* the loop over the block's instructions from inst_id on
BasicBlock_validate_insts(pu, function, bb, inst_id) ==
    IF inst_id >= Len(bb.insts)
    THEN "Ok"
    ELSE LET inst == bb.insts[inst_id + 1]
             is_last == inst_id = Len(bb.insts) - 1
         IN  IF is_last /\ ~is_tail(inst) THEN "ExpectedTailInstruction"
             ELSE IF ~is_last /\ is_tail(inst) THEN "UnexpectedTailInstruction"
             ELSE LET r == validate_inst(pu, function, inst)
                  IN  IF r # "Ok" THEN r
                      ELSE BasicBlock_validate_insts(pu, function, bb, inst_id + 1)

RECURSIVE validate_blocks(_, _, _)
validate_blocks(pu, function, block_id) ==
    IF block_id >= Len(function.body)
    THEN "Ok"
    ELSE LET r == BasicBlock_validate_insts(pu, function, function.body[block_id + 1], 0)
         IN  IF r # "Ok" THEN r ELSE validate_blocks(pu, function, block_id + 1)

Function_validate_insts(pu, function) ==
    IF function.num_args > function.num_vars
    THEN "ExcessNumArgs"
    ELSE validate_blocks(pu, function, 0)

RECURSIVE validate_functions(_, _)
validate_functions(pu, function_id) ==
    IF function_id >= Len(pu.functions)
    THEN "Ok"
    ELSE LET r == Function_validate_insts(pu, pu.functions[function_id + 1])
         IN  IF r # "Ok" THEN r ELSE validate_functions(pu, function_id + 1)

validate_insts(pu) == validate_functions(pu, 0)

(***************************************************************************)
(* Program units handed to the validator and to the SIR type checker:      *)
(* function 0 has three slots and one block, function 1 is fn(a) { a }.    *)
(* ShapeInsts exercise the structural checks, TypedInsts the typing of     *)
(* PushArg and Call.                                                       *)
(***************************************************************************)
RECURSIVE SeqsUpTo(_, _)
SeqsUpTo(S, n) ==
    IF n = 0 THEN {<<>>}
    ELSE LET shorter == SeqsUpTo(S, n - 1)
         IN  shorter \cup {Append(q, e) : q \in shorter, e \in S}

MaxShape == 3
MaxTyped == 4

ShapeInsts ==
    {Jump(0), Jump(1), Return(0), Return(3), Branch(0, 0, 1), Copy(1, 3), Drop(3),
     Literal(0, LitUnit), Closure(2, 1), Closure(2, 2), PushArg(0)}

TypedInsts ==
    {Literal(0, LitInteger(1)), Literal(0, LitString("s")), Literal(2, LitInteger(1)),
     Builtin(2, "Puti"),
     Closure(2, 1), PushArg(0), Call(1, 2)}

\* sir_typecheck.rs tests
test_typecheck_success ==
    ProgramUnit(<<Function(0, 4, <<BasicBlock(
        <<Builtin(2, "Puti"), Literal(0, LitInteger(42)), PushArg(0), Call(3, 2),
          Literal(1, LitUnit), Return(1)>>)>>)>>)
test_typecheck_failure_too_few_arg ==
    ProgramUnit(<<Function(0, 3, <<BasicBlock(
        <<Builtin(1, "Puti"), Call(2, 1), Literal(0, LitUnit), Return(0)>>)>>)>>)
test_typecheck_failure_too_many_arg ==
    ProgramUnit(<<Function(0, 4, <<BasicBlock(
        <<Literal(0, LitInteger(42)), Builtin(2, "Puti"), PushArg(0), PushArg(0),
          Call(3, 2), Literal(1, LitUnit), Return(1)>>)>>)>>)
test_typecheck_failure_arg_type_mismatch ==
    ProgramUnit(<<Function(0, 4, <<BasicBlock(
        <<Literal(0, LitString("Hello, world!")), Builtin(2, "Puti"), PushArg(0),
          Call(3, 2), Literal(1, LitUnit), Return(1)>>)>>)>>)
test_typecheck_failure_runaway_arg ==
    ProgramUnit(<<Function(0, 2, <<BasicBlock(
        <<Literal(0, LitString("Hello, world!")), Literal(1, LitUnit), PushArg(0),
          Return(1)>>)>>)>>)

CheckedProgramUnits ==
    {ProgramUnit(<<Function(0, 3, <<BasicBlock(insts)>>), Identity>>) :
        insts \in SeqsUpTo(ShapeInsts, MaxShape) \cup SeqsUpTo(TypedInsts, MaxTyped)}
    \cup {ProgramUnit(<<Function(0, 3, <<BasicBlock(<<PushArg(0), Jump(1)>>),
                                         BasicBlock(<<Builtin(2, "Puti"), Call(1, 2),
                                                      Return(1)>>)>>)>>),
          ProgramUnit(<<Function(4, 3, <<BasicBlock(<<Return(0)>>)>>)>>),
          ProgramUnit(<<Function(0, 1, <<>>)>>),
          test_typecheck_success, test_typecheck_failure_too_few_arg,
          test_typecheck_failure_too_many_arg, test_typecheck_failure_arg_type_mismatch,
          test_typecheck_failure_runaway_arg}

(***************************************************************************)
(* The two checks as a state machine.  The type checker advances one       *)
(* instruction at a time; `before` and `last` keep the context it had      *)
(* before the instruction it handled last.                                 *)
(***************************************************************************)
checked_function == program_unit.functions[checker.function_id + 1]
checked_block == checked_function.body[checker.bb_id + 1]
at_function_end == checker.bb_id = Len(checked_function.body)
at_block_end == ~at_function_end /\ checker.ip = Len(checked_block.insts)
at_inst == ~at_function_end /\ checker.ip < Len(checked_block.insts)

\* the checker at the first instruction of the function
enter_function(ty_vars, pctx, function_id) ==
    LET function == program_unit.functions[function_id + 1]
    IN  [c |-> block_start(function_entry(ty_vars, function, pctx[function_id + 1])),
         pctx |-> pctx, state_vars |-> State_vars(ty_vars, function),
         function_id |-> function_id, bb_id |-> 0, ip |-> 0,
         before |-> None, last |-> None]

InitCheck ==
    /\ phase = "input"
    /\ program_unit \in CheckedProgramUnits
    /\ analysed = NoProgram
    /\ compiled = NoProgram
    /\ ref = NoMachine
    /\ run = NoMachine
    /\ IdleFront /\ IdleCheck /\ IdleUnify /\ IdleIds /\ IdleResolve /\ IdlePass

Validate ==
    /\ phase = "input"
    /\ validated' = validate_insts(program_unit)
    /\ phase' = "validated"
    /\ UNCHANGED <<middle_vars, front_vars, checker, unify_vars, id_vars, resolve_vars, pass_vars>>

TypecheckBegin ==
    /\ phase = "validated"
    /\ LET s == signatures(<<>>, program_unit.functions, 1, <<>>)
       IN  checker' = enter_function(s.ty_vars, s.pctx, 0)
    /\ phase' = "typechecking"
    /\ UNCHANGED <<middle_vars, front_vars, validated, unify_vars, id_vars, resolve_vars, pass_vars>>

TypecheckInst ==
    /\ phase = "typechecking"
    /\ checker.c.ok
    /\ at_inst
    /\ LET inst == checked_block.insts[checker.ip + 1]
       IN  checker' = [checker EXCEPT
               !.c = typecheck_inst(checker.c, checker.pctx, checker.state_vars,
                                    checked_function, inst),
               !.ip = @ + 1, !.before = Some(checker.c), !.last = Some(inst)]
    /\ UNCHANGED <<phase, middle_vars, front_vars, validated, unify_vars, id_vars, resolve_vars, pass_vars>>

TypecheckBlockEnd ==
    /\ phase = "typechecking"
    /\ checker.c.ok
    /\ at_block_end
    /\ LET c1 == block_end(checker.c)
       IN  checker' = [checker EXCEPT
               !.c = IF c1.ok THEN block_start(c1) ELSE c1,
               !.bb_id = @ + 1, !.ip = 0, !.before = Some(checker.c), !.last = None]
    /\ UNCHANGED <<phase, middle_vars, front_vars, validated, unify_vars, id_vars, resolve_vars, pass_vars>>

TypecheckNextFunction ==
    /\ phase = "typechecking"
    /\ checker.c.ok
    /\ at_function_end
    /\ checker.function_id + 1 < Len(program_unit.functions)
    /\ checker' = enter_function(checker.c.ty_vars, checker.pctx, checker.function_id + 1)
    /\ UNCHANGED <<phase, middle_vars, front_vars, validated, unify_vars, id_vars, resolve_vars, pass_vars>>

TypecheckDone ==
    /\ phase = "typechecking"
    /\ \/ ~checker.c.ok
       \/ at_function_end /\ checker.function_id + 1 = Len(program_unit.functions)
    /\ sir_ok' = checker.c.ok
    /\ phase' = "checked"
    /\ UNCHANGED <<middle_vars, stmts, lowered, ast_ok, check_vars, unify_vars, id_vars,
                   resolve_vars, pass_vars>>

NextCheck ==
    \/ Validate
    \/ TypecheckBegin
    \/ TypecheckInst
    \/ TypecheckBlockEnd
    \/ TypecheckNextFunction
    \/ TypecheckDone

SpecCheck == InitCheck /\ [][NextCheck]_vars

(***************************************************************************)
(* Properties of the validator and of the SIR type checker                 *)
(***************************************************************************)
referenced_vars(inst) ==
    IF inst.kind = "Drop" THEN {inst.rhs} ELSE indexed_vars(inst)

referenced_blocks(inst) ==
    CASE inst.kind = "Jump" -> {inst.target}
      [] inst.kind = "Branch" -> {inst.branch_then, inst.branch_else}
      [] OTHER -> {}

ids_in_range(pu, function, inst) ==
    /\ \A b \in referenced_blocks(inst) : b < Len(function.body)
    /\ \A v \in referenced_vars(inst) : v < function.num_vars
    /\ inst.kind = "Closure" => inst.function_id < Len(pu.functions)

well_formed_program(pu) ==
    \A f \in DOMAIN pu.functions :
        LET function == pu.functions[f]
        IN  /\ function.num_args <= function.num_vars
            /\ well_formed(function)
            /\ \A b \in DOMAIN function.body :
                   \A i \in DOMAIN function.body[b].insts :
                       ids_in_range(pu, function, function.body[b].insts[i])

has_empty_block(pu) ==
    \E f \in DOMAIN pu.functions :
        \E b \in DOMAIN pu.functions[f].body : pu.functions[f].body[b].insts = <<>>

\* C11: validate_insts returns Ok if and only if every function has
\* num_args <= num_vars, every block ends in exactly one tail instruction with
\* no tail in its interior (so a block without instructions is rejected), and
\* every block, variable and function id is in range.
C11_ValidatorExact ==
    validated # "none" => (validated = "Ok" <=> well_formed_program(program_unit))

\* the validator has answered for a program with a block without instructions
C11_Witness == validated # "none" /\ has_empty_block(program_unit)

RECURSIVE expanded(_, _)
\* the type with every bound type variable replaced by what it is bound to
expanded(ty_vars, ty) ==
    LET t == expand_shallow(ty_vars, ty)
    IN  IF t.kind = "Function"
        THEN TypeFunction([i \in DOMAIN t.args |-> expanded(ty_vars, t.args[i])],
                          expanded(ty_vars, t.ret))
        ELSE t

RECURSIVE ground(_)
ground(ty) ==
    CASE ty.kind = "Var" -> FALSE
      [] ty.kind = "Function" ->
            (\A i \in DOMAIN ty.args : ground(ty.args[i])) /\ ground(ty.ret)
      [] OTHER -> TRUE

\* the checker has just handled a Call that it reached without an error
after_call ==
    /\ phase \in {"typechecking", "checked"}
    /\ checker.last.some
    /\ checker.last.v.kind = "Call"

call_lhs == checker.state_vars[checker.last.v.lhs + 1]
\* the callee's type and the pending arguments as they were at the Call
callee_at_call == expand_shallow(checker.before.v.ty_vars,
                                 checker.state_vars[checker.last.v.callee + 1])
pending_at_call == checker.before.v.args

\* some pending argument and the parameter at its position are different
\* types without type variables
argument_mismatch ==
    /\ callee_at_call.kind = "Function"
    /\ \E k \in DOMAIN pending_at_call \cap DOMAIN callee_at_call.args :
           LET a == expanded(checker.before.v.ty_vars, pending_at_call[k])
               q == expanded(checker.before.v.ty_vars, callee_at_call.args[k])
           IN  ground(a) /\ ground(q) /\ a # q

too_few_arguments ==
    callee_at_call.kind = "Function" /\ Len(pending_at_call) < Len(callee_at_call.args)
too_many_arguments ==
    callee_at_call.kind = "Function" /\ Len(pending_at_call) > Len(callee_at_call.args)

\* C12: a Call fails unless the callee's type is already a Function type with
\* as many parameters as there are pending PushArgs and each pending argument
\* agrees with the parameter at its position; on success lhs has the return
\* type and the pending stack is empty.  Too few, too many and wrongly typed
\* arguments are each an error.
C12_CallTyping ==
    after_call =>
        /\ (callee_at_call.kind # "Function" \/ too_few_arguments \/ too_many_arguments
              \/ argument_mismatch) => ~checker.c.ok
        /\ checker.c.ok =>
              /\ callee_at_call.kind = "Function"
              /\ Len(pending_at_call) = Len(callee_at_call.args)
              /\ \A k \in DOMAIN pending_at_call :
                     expanded(checker.c.ty_vars, pending_at_call[k])
                         = expanded(checker.c.ty_vars, callee_at_call.args[k])
              /\ expanded(checker.c.ty_vars, call_lhs)
                     = expanded(checker.c.ty_vars, callee_at_call.ret)
              /\ checker.c.args = <<>>

\* a Call with one pending argument has been accepted
C12_Witness == after_call /\ checker.c.ok /\ Len(pending_at_call) = 1

\* the block has a PushArg with no Call after it
runaway_arg(bb) ==
    \E i \in DOMAIN bb.insts :
        /\ bb.insts[i].kind = "PushArg"
        /\ \A j \in (i + 1)..Len(bb.insts) : bb.insts[j].kind # "Call"

has_runaway_arg(pu) ==
    \E f \in DOMAIN pu.functions :
        \E b \in DOMAIN pu.functions[f].body : runaway_arg(pu.functions[f].body[b])

\* C13: a program with a block that ends with a PushArg no later Call of the
\* block has consumed is not accepted by the type checker, and the checker
\* enters every block with no pending argument.
C13_RunawayArgRejected ==
    /\ (phase = "checked" /\ has_runaway_arg(program_unit)) => ~sir_ok
    /\ (phase = "typechecking" /\ checker.c.ok /\ checker.ip = 0) => checker.c.args = <<>>

\* the end of a block has been reached without an earlier error and with an
\* argument still pending
C13_Witness ==
    /\ phase = "typechecking"
    /\ checker.before.some
    /\ ~checker.last.some
    /\ checker.before.v.ok
    /\ checker.before.v.args # <<>>
    /\ ~checker.c.ok

(***************************************************************************)
(* ntype.rs as a state machine: a TyCtx that grows by Type::fresh and is   *)
(* changed by Type::unify on two types over its meta-variables.            *)
(* unify_call is the call whose result the caller is looking at: its       *)
(* arguments, the context before it and its result.                        *)
(***************************************************************************)
MaxMetaVars == 2
MaxParams == 2

MetaVars(n) == {TypeMetaVar(i) : i \in 0..(n - 1)}

\* the function type of test_unify_simple
test_unify_simple == TypeFunction(<<TypeUnit, TypeString>>, TypeInteger)

\* the types handed to unify when the context has n meta-variables
UnifyTypes(n) ==
    {TypeUnit, TypeString, TypeInteger, TypeBool} \cup MetaVars(n)
    \cup {TypeFunction(args, ret) :
            args \in SeqsUpTo({TypeInteger} \cup MetaVars(n), MaxParams),
            ret \in {TypeUnit} \cup MetaVars(n)}
    \cup {test_unify_simple}

InitUnify ==
    /\ phase = "unify"
    /\ ty_ctx = <<>>
    /\ unify_call = <<>>
    /\ IdleMiddle /\ IdleFront /\ IdleCheck /\ IdleIds /\ IdleResolve /\ IdlePass

Fresh ==
    /\ unify_call = <<>>
    /\ Len(ty_ctx) < MaxMetaVars
    /\ ty_ctx' = fresh(ty_ctx)
    /\ UNCHANGED <<phase, middle_vars, front_vars, check_vars, unify_call, id_vars,
                   resolve_vars, pass_vars>>

Unify ==
    /\ unify_call = <<>>
    /\ \E self \in UnifyTypes(Len(ty_ctx)), other \in UnifyTypes(Len(ty_ctx)) :
           LET r == unify(self, other, ty_ctx)
           IN  /\ ty_ctx' = r.vars
               /\ unify_call' = [self |-> self, other |-> other, before |-> ty_ctx,
                                 ok |-> r.ok]
    /\ UNCHANGED <<phase, middle_vars, front_vars, check_vars, id_vars, resolve_vars, pass_vars>>

\* the caller has looked at the result
UnifyReturn ==
    /\ unify_call # <<>>
    /\ unify_call' = <<>>
    /\ UNCHANGED <<phase, middle_vars, front_vars, check_vars, ty_ctx, id_vars, resolve_vars, pass_vars>>

NextUnify == Fresh \/ Unify \/ UnifyReturn

SpecUnify == InitUnify /\ [][NextUnify]_vars

\* C14: whenever unify returns Ok the two types have equal views afterwards,
\* whatever the two types and their order, and unifying a meta-variable with
\* itself succeeds and binds nothing.
C14_UnifyMakesEqual ==
    unify_call # <<>> =>
        /\ unify_call.ok => view_eq(unify_call.self, unify_call.other, ty_ctx)
        /\ (unify_call.self.kind = "MetaVar" /\ unify_call.self = unify_call.other) =>
              (unify_call.ok /\ \A i \in DOMAIN unify_call.before :
                                    ty_ctx[i] = unify_call.before[i])

\* a unify of two types with different views has returned Ok and bound a
\* meta-variable
C14_Witness ==
    /\ unify_call # <<>>
    /\ unify_call.ok
    /\ ~view_eq(unify_call.self, unify_call.other, unify_call.before)
    /\ unify_call.self.kind = "Function"
    /\ ty_ctx # unify_call.before

RECURSIVE meta_vars_in(_)
\* the meta-variables written in the type
meta_vars_in(ty) ==
    CASE ty.kind = "MetaVar" -> {ty.var_id}
      [] ty.kind = "Function" ->
            UNION {meta_vars_in(ty.args[i]) : i \in DOMAIN ty.args} \cup meta_vars_in(ty.ret)
      [] OTHER -> {}

RECURSIVE bound_to(_, _, _)
\* the meta-variables met within k steps along the bindings from those in S
bound_to(S, ty_vars, k) ==
    IF k = 0 THEN S
    ELSE bound_to(S \cup UNION {meta_vars_in(ty_vars[v + 1].v) :
                                   v \in {w \in S : ty_vars[w + 1].some}},
                  ty_vars, k - 1)

\* following bindings from the meta-variable leads back to it
on_cycle(var_id, ty_vars) ==
    /\ ty_vars[var_id + 1].some
    /\ var_id \in bound_to(meta_vars_in(ty_vars[var_id + 1].v), ty_vars, Len(ty_vars))

\* the meta-variables that are left in the type once it is resolved throughout
free_meta_vars(ty, ty_vars) ==
    {v \in bound_to(meta_vars_in(ty), ty_vars, Len(ty_vars)) : ~ty_vars[v + 1].some}

RECURSIVE subst(_, _)
\* the type with meta-variable i replaced by sigma[i + 1]
subst(ty, sigma) ==
    CASE ty.kind = "MetaVar" -> sigma[ty.var_id + 1]
      [] ty.kind = "Function" ->
            TypeFunction([i \in DOMAIN ty.args |-> subst(ty.args[i], sigma)],
                         subst(ty.ret, sigma))
      [] OTHER -> ty

GroundTypes ==
    {TypeUnit, TypeString, TypeInteger, TypeBool}
    \cup {TypeFunction(args, ret) : args \in SeqsUpTo({TypeInteger}, MaxParams),
                                    ret \in {TypeUnit, TypeInteger}}

\* the assignments of ground types to the meta-variables that agree with the
\* bindings of the context
solutions(ty_vars) ==
    {sigma \in [DOMAIN ty_vars -> GroundTypes] :
        \A i \in DOMAIN ty_vars :
            ty_vars[i].some => sigma[i] = subst(ty_vars[i].v, sigma)}

\* some such assignment makes the two types equal
has_solution(ty1, ty2, ty_vars) ==
    \E sigma \in solutions(ty_vars) : subst(ty1, sigma) = subst(ty2, sigma)

unify_self == resolve(unify_call.self, unify_call.before)
unify_other == resolve(unify_call.other, unify_call.before)

constructor_mismatch ==
    /\ unify_self.kind # "MetaVar"
    /\ unify_other.kind # "MetaVar"
    /\ unify_self.kind # unify_other.kind

arity_mismatch ==
    /\ unify_self.kind = "Function"
    /\ unify_other.kind = "Function"
    /\ Len(unify_self.args) # Len(unify_other.args)

\* one side is an unsolved meta-variable and the other side, a different
\* type, contains it
occurs_in(ty1, ty2) ==
    /\ ty1.kind = "MetaVar"
    /\ ty2 # ty1
    /\ ty1.var_id \in free_meta_vars(ty2, unify_call.before)

occurs_failure == occurs_in(unify_self, unify_other) \/ occurs_in(unify_other, unify_self)

\* a meta-variable solved to a type without meta-variables meets a different
\* such type
solved_mismatch(ty1, ty2) ==
    /\ ty1.kind = "MetaVar"
    /\ unify_call.before[ty1.var_id + 1].some
    /\ ty2.kind # "MetaVar"
    /\ free_meta_vars(ty1, unify_call.before) = {}
    /\ free_meta_vars(ty2, unify_call.before) = {}
    /\ ~view_eq(ty1, ty2, unify_call.before)

\* C15: unify fails when the resolved types have different constructors, when
\* two function types differ in their number of parameters and when a
\* meta-variable would be bound to a type that contains it, and only when no
\* assignment to the meta-variables makes the two types equal; a solved
\* meta-variable does not unify with a different concrete type in either order;
\* no solved meta-variable is bound again and no chain of bindings is a cycle.
C15_UnifyFailsExactly ==
    /\ unify_call # <<>> =>
          /\ (constructor_mismatch \/ arity_mismatch \/ occurs_failure) => ~unify_call.ok
          /\ \A i \in DOMAIN unify_call.before :
                 unify_call.before[i].some => ty_ctx[i] = unify_call.before[i]
    /\ \A i \in DOMAIN ty_ctx : ~on_cycle(i - 1, ty_ctx)
    /\ unify_call # <<>> =>
          /\ (solved_mismatch(unify_call.self, unify_call.other)
                \/ solved_mismatch(unify_call.other, unify_call.self)) => ~unify_call.ok
          /\ ~unify_call.ok =>
                ~has_solution(unify_call.self, unify_call.other, unify_call.before)

\* a unify has failed on the occurs check alone
C15_Witness ==
    /\ unify_call # <<>>
    /\ ~unify_call.ok
    /\ occurs_failure
    /\ ~constructor_mismatch
    /\ ~arity_mismatch

(***************************************************************************)
(* cctx.rs.  id_gens[g] is the counter made by the g-th IdGen::new(), with *)
(* the number of IdGen handles that share it; issued is the list of        *)
(* fresh() calls of the process in the order of their fetch_add, each with *)
(* its counter, handle, thread and the Id it returned.                     *)
(***************************************************************************)
MaxPipelines == 2
MaxHandles == 2
MaxThreads == 2
MaxIssued == 3

Id(number) == [number |-> number]
dummy == Id(0)

IdGen_new == [next_id |-> first_id, handles |-> 1]

\* fetch_add that returns the value after the addition
add_fetch(next_id) == [returned |-> next_id + 1, next_id |-> next_id + 1]

\* AtomicUsize::fetch_add(1, Relaxed): one indivisible step
fetch_add(next_id) == [returned |-> next_id, next_id |-> next_id + 1]

InitIds ==
    /\ phase = "ids"
    /\ id_gens = <<>>
    /\ issued = <<>>
    /\ IdleMiddle /\ IdleFront /\ IdleCheck /\ IdleUnify /\ IdleResolve /\ IdlePass

\* CCtx::new() at the start of a pipeline
CCtx_new ==
    /\ Len(id_gens) < MaxPipelines
    /\ id_gens' = Append(id_gens, IdGen_new)
    /\ UNCHANGED <<phase, middle_vars, front_vars, check_vars, unify_vars, issued,
                   resolve_vars, pass_vars>>

\* IdGen::clone: one more handle on the same counter
IdGen_clone ==
    /\ \E g \in DOMAIN id_gens :
           /\ id_gens[g].handles < MaxHandles
           /\ id_gens' = [id_gens EXCEPT ![g].handles = @ + 1]
    /\ UNCHANGED <<phase, middle_vars, front_vars, check_vars, unify_vars, issued,
                   resolve_vars, pass_vars>>

\* IdGen::fresh on some handle by some thread
IdGen_fresh ==
    /\ Len(issued) < MaxIssued
    /\ \E g \in DOMAIN id_gens, thread \in 1..MaxThreads :
           \E handle \in 1..id_gens[g].handles :
               LET r == fetch_add(id_gens[g].next_id)
               IN  /\ id_gens' = [id_gens EXCEPT ![g].next_id = r.next_id]
                   /\ issued' = Append(issued, [gen |-> g, handle |-> handle,
                                                thread |-> thread,
                                                id |-> Id(r.returned)])
    /\ UNCHANGED <<phase, middle_vars, front_vars, check_vars, unify_vars, resolve_vars, pass_vars>>

NextIds == CCtx_new \/ IdGen_clone \/ IdGen_fresh

SpecIds == InitIds /\ [][NextIds]_vars

\* the calls of fresh() on counter g, in their order
calls_on(g) == SelectSeq(issued, LAMBDA issue : issue.gen = g)

\* C16: on one IdGen and its clones the k-th call of fresh() returns the Id
\* with number k, starting at 1; the results are strictly increasing and none
\* is the dummy id.
C16_IdSequence ==
    \A g \in DOMAIN id_gens :
        LET calls == calls_on(g)
        IN  /\ \A k \in DOMAIN calls : calls[k].id = Id(k)
            /\ \A k \in DOMAIN calls : calls[k].id # dummy
            /\ \A j, k \in DOMAIN calls : j < k => calls[j].id.number < calls[k].id.number

\* three calls on one counter, through two handles and from two threads
C16_Witness ==
    \E g \in DOMAIN id_gens :
        LET calls == calls_on(g)
        IN  /\ Len(calls) >= 3
            /\ \E j, k \in DOMAIN calls :
                   calls[j].handle # calls[k].handle /\ calls[j].thread # calls[k].thread

\* C17: two ids are equal if and only if the same fresh() call issued them,
\* with calls from several threads and with several pipelines, each with its
\* compiler context, in one process.
C17_IdUniqueness ==
    \A j, k \in DOMAIN issued : (issued[j].id = issued[k].id) <=> (j = k)

\* two pipelines of the process have each been issued an id
C17_Witness ==
    \E j, k \in DOMAIN issued : issued[j].gen # issued[k].gen

(***************************************************************************)
(* ast.rs: name resolution.  An Ident is a name with an id, the dummy id   *)
(* until it is resolved.  A Scope is [bindings, binding_stack]; bindings   *)
(* is a function from the bound names to their ids.  The resolver's        *)
(* context is [scope, next_id, status, returned]: next_id is the counter   *)
(* of cctx.id_gen, status becomes "undefined variable" at the panic, and   *)
(* returned lists, for each assign_id_stmts call that returned, the scope  *)
(* at its entry and at its return.                                         *)
(***************************************************************************)
Ident(name, id) == [name |-> name, id |-> id]
Ident_from(name) == Ident(name, dummy)

Stmt_let(name, init) == [kind |-> "Let", lhs |-> Ident_from(name), init |-> init]
Expr_var(name) == [kind |-> "Var", ident |-> Ident_from(name)]
Expr_assign(name, rhs) == [kind |-> "Assign", lhs |-> Ident_from(name), rhs |-> rhs]

BuiltinKind_name(builtin_kind) ==
    CASE builtin_kind = "Puts" -> "puts"
      [] builtin_kind = "Puti" -> "puti"

Scope_insert(self, name, id) ==
    [bindings |-> (name :> id) @@ self.bindings,
     binding_stack |-> Append(self.binding_stack,
                              <<name, IF name \in DOMAIN self.bindings
                                      THEN Some(self.bindings[name]) ELSE None>>)]

RECURSIVE Scope_inserts(_, _)
Scope_inserts(self, ids) ==
    IF ids = <<>> THEN self
    ELSE Scope_inserts(Scope_insert(self, BuiltinKind_name(builtins[Head(ids)]),
                                    Id(Head(ids))),
                       Tail(ids))

\* Scope::new with the builtins met in the order `ids`, one of the orders in
\* which the HashMap may be iterated
Scope_new(ids) == Scope_inserts([bindings |-> <<>>, binding_stack |-> <<>>], ids)

checkpoint(self) == Len(self.binding_stack)

RECURSIVE restore(_, _, _)
\* the drained entries put back one by one, in the order they are in `entries`
restore(bindings, entries, i) ==
    IF i > Len(entries) THEN bindings
    ELSE LET key == entries[i][1]
             old_id == entries[i][2]
         IN  restore(IF old_id.some
                     THEN (key :> old_id.v) @@ bindings
                     ELSE [n \in DOMAIN bindings \ {key} |-> bindings[n]],
                     entries, i + 1)

Reverse(q) == [i \in 1..Len(q) |-> q[Len(q) + 1 - i]]

\* rollback that puts the drained entries back oldest first
rollback_oldest_first(self, checkpoint_) ==
    [bindings |-> restore(self.bindings,
                          SubSeq(self.binding_stack, checkpoint_ + 1,
                                 Len(self.binding_stack)), 1),
     binding_stack |-> SubSeq(self.binding_stack, 1, checkpoint_)]

rollback(self, checkpoint_) ==
    [bindings |-> restore(self.bindings,
                          Reverse(SubSeq(self.binding_stack, checkpoint_ + 1,
                                         Len(self.binding_stack))), 1),
     binding_stack |-> SubSeq(self.binding_stack, 1, checkpoint_)]

\* scope.bindings.get(name), or the panic
lookup(c, ident) ==
    IF ident.name \in DOMAIN c.scope.bindings
    THEN [c |-> c, ident |-> Ident(ident.name, c.scope.bindings[ident.name])]
    ELSE [c |-> [c EXCEPT !.status = "undefined variable"], ident |-> ident]

RECURSIVE assign_id_stmts(_, _)
RECURSIVE assign_id_stmts_from(_, _, _)
RECURSIVE assign_id_stmt(_, _)
RECURSIVE assign_id_expr(_, _)
RECURSIVE assign_id_args(_, _, _)

assign_id_stmts_from(c, stmts_, i) ==
    IF i > Len(stmts_) \/ c.status # "ok"
    THEN [c |-> c, node |-> stmts_]
    ELSE LET r == assign_id_stmt(c, stmts_[i])
         IN  assign_id_stmts_from(r.c, [stmts_ EXCEPT ![i] = r.node], i + 1)

assign_id_stmts(c, stmts_) ==
    LET r == assign_id_stmts_from(c, stmts_, 1)
        restored == rollback(r.c.scope, checkpoint(c.scope))
    IN  IF r.c.status # "ok" THEN r
        ELSE [c |-> [r.c EXCEPT !.scope = restored,
                                !.returned = Append(@, [entry |-> c.scope,
                                                        return |-> restored])],
              node |-> r.node]

\* Let with the binding made before the initializer is resolved
assign_id_stmt_let_first(c, stmt) ==
    IF stmt.kind = "Let"
    THEN LET lhs == Ident(stmt.lhs.name, Id(c.next_id))
             c1 == [c EXCEPT !.next_id = @ + 1,
                             !.scope = Scope_insert(@, lhs.name, lhs.id)]
             r == assign_id_expr(c1, stmt.init)
         IN  [c |-> r.c, node |-> [stmt EXCEPT !.lhs = lhs, !.init = r.node]]
    ELSE LET r == assign_id_expr(c, stmt.expr)
         IN  [c |-> r.c, node |-> [stmt EXCEPT !.expr = r.node]]

assign_id_stmt(c, stmt) ==
    IF stmt.kind = "Let"
    THEN LET r == assign_id_expr(c, stmt.init)
             lhs == Ident(stmt.lhs.name, Id(r.c.next_id))
         IN  IF r.c.status # "ok"
             THEN [c |-> r.c, node |-> [stmt EXCEPT !.init = r.node]]
             ELSE [c |-> [r.c EXCEPT !.next_id = @ + 1,
                                     !.scope = Scope_insert(@, lhs.name, lhs.id)],
                   node |-> [stmt EXCEPT !.lhs = lhs, !.init = r.node]]
    ELSE LET r == assign_id_expr(c, stmt.expr)
         IN  [c |-> r.c, node |-> [stmt EXCEPT !.expr = r.node]]

assign_id_args(c, args, i) ==
    IF i > Len(args) \/ c.status # "ok"
    THEN [c |-> c, node |-> args]
    ELSE LET r == assign_id_expr(c, args[i])
         IN  assign_id_args(r.c, [args EXCEPT ![i] = r.node], i + 1)

assign_id_expr(c, e) ==
    IF c.status # "ok" THEN [c |-> c, node |-> e] ELSE
    CASE e.kind = "Var" ->
            LET r == lookup(c, e.ident)
            IN  [c |-> r.c, node |-> [e EXCEPT !.ident = r.ident]]
      [] e.kind = "Branch" ->
            LET r1 == assign_id_expr(c, e.cond)
                r2 == assign_id_expr(r1.c, e.then)
                r3 == assign_id_expr(r2.c, e.else_)
            IN  [c |-> r3.c,
                 node |-> [e EXCEPT !.cond = r1.node, !.then = r2.node, !.else_ = r3.node]]
      [] e.kind = "While" ->
            LET r1 == assign_id_expr(c, e.cond)
                r2 == assign_id_expr(r1.c, e.body)
            IN  [c |-> r2.c, node |-> [e EXCEPT !.cond = r1.node, !.body = r2.node]]
      [] e.kind = "Block" ->
            LET r == assign_id_stmts(c, e.stmts)
            IN  [c |-> r.c, node |-> [e EXCEPT !.stmts = r.node]]
      [] e.kind = "Assign" ->
            LET r1 == assign_id_expr(c, e.rhs)
                r2 == lookup(r1.c, e.lhs)
            IN  IF r1.c.status # "ok"
                THEN [c |-> r1.c, node |-> [e EXCEPT !.rhs = r1.node]]
                ELSE [c |-> r2.c, node |-> [e EXCEPT !.rhs = r1.node, !.lhs = r2.ident]]
      [] e.kind = "Call" ->
            LET r1 == assign_id_expr(c, e.callee)
                r2 == assign_id_args(r1.c, e.args, 1)
            IN  [c |-> r2.c, node |-> [e EXCEPT !.callee = r1.node, !.args = r2.node]]
      [] e.kind \in {"IntegerLiteral", "StringLiteral"} -> [c |-> c, node |-> e]
      [] e.kind = "BinOp" ->
            LET r1 == assign_id_expr(c, e.lhs)
                r2 == assign_id_expr(r1.c, e.rhs)
            IN  [c |-> r2.c, node |-> [e EXCEPT !.lhs = r1.node, !.rhs = r2.node]]

(***************************************************************************)
(* The parsed programs handed to the resolver: some Lets followed by up to  *)
(* MaxStmts statements over the names x and y and the builtin puti, with   *)
(* blocks of up to MaxBlock statements nested up to two deep.              *)
(***************************************************************************)
MaxStmts == 1
MaxBlock == 2

Names == {"x", "y"}

Inits == {integer_literal(1), Expr_var("x"), add(Expr_var("x"), Expr_var("y"))}

FlatStmts ==
    {Stmt_let(n, i) : n \in Names, i \in Inits}
    \cup {expr(Expr_var("x")),
          expr(Expr_assign("x", Expr_var("y"))),
          expr(call(Expr_var("puti"), <<Expr_var("x")>>))}

InnerStmts ==
    {Stmt_let("x", Expr_var("x")), Stmt_let("y", Expr_var("x")), expr(Expr_var("x"))}

InnerBlocks == {block(ss) : ss \in SeqsUpTo(InnerStmts, MaxBlock)}

OuterBlocks ==
    {block(<<s>> \o ss) :
        s \in {Stmt_let("x", Expr_var("x"))} \cup {expr(b) : b \in InnerBlocks},
        ss \in {<<>>, <<expr(Expr_var("x"))>>}}

TopStmts ==
    FlatStmts
    \cup {expr(b) : b \in InnerBlocks \cup OuterBlocks}
    \cup {expr(branch(Expr_var("x"), b, Expr_var("x"))) :
            b \in {block(<<Stmt_let("x", Expr_var("x"))>>),
                   block(<<Stmt_let("y", Expr_var("x")), expr(Expr_var("y"))>>)}}
    \cup {expr(while_(Expr_var("x"), block(<<Stmt_let("x", Expr_var("x"))>>)))}

Prefixes ==
    {<<>>, <<Stmt_let("x", integer_literal(1))>>,
     <<Stmt_let("x", integer_literal(1)), Stmt_let("x", Expr_var("x")),
       expr(Expr_var("x"))>>}

ParsedPrograms == {lets \o ss : lets \in Prefixes, ss \in SeqsUpTo(TopStmts, MaxStmts)}

\* the orders in which Scope::new may meet the builtins
BuiltinOrders ==
    {ids \in [1..Cardinality(DOMAIN builtins) -> DOMAIN builtins] :
        \A i, j \in DOMAIN ids : ids[i] = ids[j] => i = j}

InitResolve ==
    /\ phase = "parsed"
    /\ parsed \in ParsedPrograms
    /\ scope \in {Scope_new(ids) : ids \in BuiltinOrders}
    /\ resolved = <<>>
    /\ IdleMiddle /\ IdleFront /\ IdleCheck /\ IdleUnify /\ IdleIds /\ IdlePass

\* assign_id_stmts on the program, with the ids after those of the builtins
AssignIds ==
    /\ phase = "parsed"
    /\ LET r == assign_id_stmts([scope |-> scope, next_id |-> x_id, status |-> "ok",
                                 returned |-> <<>>], parsed)
       IN  /\ scope' = r.c.scope
           /\ resolved' = [stmts |-> r.node, status |-> r.c.status,
                           next_id |-> r.c.next_id, returned |-> r.c.returned]
           /\ phase' = IF r.c.status = "ok" THEN "ids_assigned" ELSE "panicked"
    /\ UNCHANGED <<middle_vars, front_vars, check_vars, unify_vars, id_vars, parsed,
                   pass_vars>>

NextResolve == AssignIds

SpecResolve == InitResolve /\ [][NextResolve]_vars

(***************************************************************************)
(* Properties of name resolution, stated with an environment from names   *)
(* to ids that is passed down the resolved program.                        *)
(***************************************************************************)
builtin_env ==
    [n \in {BuiltinKind_name(builtins[i]) : i \in DOMAIN builtins} |->
        Id(CHOOSE i \in DOMAIN builtins : BuiltinKind_name(builtins[i]) = n)]

bound_as(ident, env) == ident.name \in DOMAIN env /\ ident.id = env[ident.name]

RECURSIVE scoped_stmts(_, _, _)
RECURSIVE scoped_expr(_, _)
\* every use in the statements from the i-th on has the id of env, where a
\* Let extends env for the statements after it, not for its own initializer
scoped_stmts(ss, env, i) ==
    IF i > Len(ss) THEN TRUE
    ELSE IF ss[i].kind = "Let"
         THEN /\ scoped_expr(ss[i].init, env)
              /\ scoped_stmts(ss, (ss[i].lhs.name :> ss[i].lhs.id) @@ env, i + 1)
         ELSE /\ scoped_expr(ss[i].expr, env)
              /\ scoped_stmts(ss, env, i + 1)

scoped_expr(e, env) ==
    CASE e.kind = "Var" -> bound_as(e.ident, env)
      [] e.kind = "Assign" -> scoped_expr(e.rhs, env) /\ bound_as(e.lhs, env)
      [] e.kind = "Block" -> scoped_stmts(e.stmts, env, 1)
      [] e.kind = "Branch" ->
            scoped_expr(e.cond, env) /\ scoped_expr(e.then, env) /\ scoped_expr(e.else_, env)
      [] e.kind = "While" -> scoped_expr(e.cond, env) /\ scoped_expr(e.body, env)
      [] e.kind = "Call" ->
            scoped_expr(e.callee, env) /\ \A i \in DOMAIN e.args : scoped_expr(e.args[i], env)
      [] e.kind = "BinOp" -> scoped_expr(e.lhs, env) /\ scoped_expr(e.rhs, env)
      [] OTHER -> TRUE

RECURSIVE binders_stmts(_, _)
RECURSIVE binders_expr(_)
\* the ids of the binders in the order in which resolution meets them
binders_stmts(ss, i) ==
    IF i > Len(ss) THEN <<>>
    ELSE (IF ss[i].kind = "Let"
          THEN binders_expr(ss[i].init) \o <<ss[i].lhs.id>>
          ELSE binders_expr(ss[i].expr)) \o binders_stmts(ss, i + 1)

binders_expr(e) ==
    CASE e.kind = "Assign" -> binders_expr(e.rhs)
      [] e.kind = "Block" -> binders_stmts(e.stmts, 1)
      [] e.kind = "Branch" ->
            binders_expr(e.cond) \o binders_expr(e.then) \o binders_expr(e.else_)
      [] e.kind = "While" -> binders_expr(e.cond) \o binders_expr(e.body)
      [] e.kind = "BinOp" -> binders_expr(e.lhs) \o binders_expr(e.rhs)
      [] OTHER -> <<>>

\* each binder's id is none of the ids issued before it
fresh_binders(ss) ==
    LET ids == binders_stmts(ss, 1)
    IN  \A k \in DOMAIN ids :
            /\ ids[k] # dummy
            /\ ids[k].number \notin DOMAIN builtins
            /\ \A j \in 1..(k - 1) : ids[j] # ids[k]

RECURSIVE every_name_bound(_, _, _)
RECURSIVE every_name_bound_expr(_, _)
\* every use in the statements from the i-th on is of a name in `bound`
every_name_bound(ss, bound, i) ==
    IF i > Len(ss) THEN TRUE
    ELSE IF ss[i].kind = "Let"
         THEN /\ every_name_bound_expr(ss[i].init, bound)
              /\ every_name_bound(ss, bound \cup {ss[i].lhs.name}, i + 1)
         ELSE /\ every_name_bound_expr(ss[i].expr, bound)
              /\ every_name_bound(ss, bound, i + 1)

every_name_bound_expr(e, bound) ==
    CASE e.kind = "Var" -> e.ident.name \in bound
      [] e.kind = "Assign" -> every_name_bound_expr(e.rhs, bound) /\ e.lhs.name \in bound
      [] e.kind = "Block" -> every_name_bound(e.stmts, bound, 1)
      [] e.kind = "Branch" ->
            /\ every_name_bound_expr(e.cond, bound)
            /\ every_name_bound_expr(e.then, bound)
            /\ every_name_bound_expr(e.else_, bound)
      [] e.kind = "While" ->
            every_name_bound_expr(e.cond, bound) /\ every_name_bound_expr(e.body, bound)
      [] e.kind = "Call" ->
            /\ every_name_bound_expr(e.callee, bound)
            /\ \A i \in DOMAIN e.args : every_name_bound_expr(e.args[i], bound)
      [] e.kind = "BinOp" ->
            every_name_bound_expr(e.lhs, bound) /\ every_name_bound_expr(e.rhs, bound)
      [] OTHER -> TRUE

\* C18: resolution gives every use inside the initializer of Let(x, init) the
\* id x had before the Let, or aborts when x had none; the binder gets an id
\* none of the ids issued before; every use of x after the Let, up to the next
\* Let of x in the block, gets the binder's id.
C18_NonRecursiveLet ==
    /\ phase = "ids_assigned" =>
          /\ scoped_stmts(resolved.stmts, builtin_env, 1)
          /\ fresh_binders(resolved.stmts)
    /\ phase \in {"ids_assigned", "panicked"} =>
          (phase = "panicked" <=> ~every_name_bound(parsed, DOMAIN builtin_env, 1))

\* a resolved Let of a name whose initializer uses the name, with the id of an
\* earlier binder, and a use after the Let with the id of this binder
C18_Witness ==
    /\ phase = "ids_assigned"
    /\ \E i \in DOMAIN resolved.stmts :
           LET s == resolved.stmts[i]
           IN  /\ i < Len(resolved.stmts)
               /\ s.kind = "Let"
               /\ s.init.kind = "Var"
               /\ s.init.ident.name = s.lhs.name
               /\ s.init.ident.id # s.lhs.id
               /\ resolved.stmts[i + 1].kind = "Expr"
               /\ resolved.stmts[i + 1].expr.kind = "Var"
               /\ resolved.stmts[i + 1].expr.ident = s.lhs

\* C19: when assign_id_stmts returns, the bindings and the binding stack of the
\* scope are what they were at the call, for every nested block and for any
\* number of Lets of one name.
C19_ScopeRestored ==
    phase = "ids_assigned" =>
        /\ \A k \in DOMAIN resolved.returned :
               resolved.returned[k].return = resolved.returned[k].entry
        /\ resolved.returned # <<>>
        /\ scope = resolved.returned[Len(resolved.returned)].entry

\* a block with two Lets of a name that is bound outside of it has returned
C19_Witness ==
    /\ phase = "ids_assigned"
    /\ \E k \in DOMAIN parsed :
           /\ parsed[k].kind = "Expr"
           /\ parsed[k].expr.kind = "Block"
           /\ \E i, j \in DOMAIN parsed[k].expr.stmts :
                  /\ i < j
                  /\ parsed[k].expr.stmts[i].kind = "Let"
                  /\ parsed[k].expr.stmts[j].kind = "Let"
                  /\ parsed[k].expr.stmts[i].lhs.name = parsed[k].expr.stmts[j].lhs.name
                  /\ \E h \in 1..(k - 1) :
                         /\ parsed[h].kind = "Let"
                         /\ parsed[h].lhs.name = parsed[k].expr.stmts[i].lhs.name

(***************************************************************************)
(* Properties of the interpreter's calls of the host                       *)
(***************************************************************************)
\* the instruction the machine is at, if there is one
next_inst(pu, m) ==
    LET f == top(m)
        bb == pu.functions[f.function_id + 1].body[f.bb + 1]
    IN  IF f.ip <= Len(bb.insts) THEN Some(bb.insts[f.ip]) ELSE None

\* the host calls due at the instruction the machine is at: one for a call of
\* Puts on a string or of Puti on an integer, none otherwise
host_calls_due(pu, m) ==
    LET f == top(m)
        at == next_inst(pu, m)
    IN  IF ~at.some \/ at.v.kind # "Call" \/ ~filled(f, at.v.callee) THEN <<>>
        ELSE LET callee == f.vars[at.v.callee + 1].v
             IN  IF callee.ty # "BuiltinRef" \/ Len(f.args) # 1 THEN <<>>
                 ELSE IF callee.builtin = "Puts" /\ f.args[1].ty = "String"
                      THEN <<f.args[1].s>>
                 ELSE IF callee.builtin = "Puti" /\ f.args[1].ty = "Integer"
                      THEN <<to_string(f.args[1].i)>>
                 ELSE <<>>

\* a step of the interpreter adds to the host's calls exactly those due at its
\* instruction, after the calls made before
in_program_order ==
    (phase = "eval1" /\ run.status = "running" /\ run' # run) =>
        IF run'.status \in {"running", "returned"}
        THEN run'.out = run.out \o host_calls_due(compiled, run)
        ELSE run'.out = run.out

sum_printed ==
    (phase = "eval1" /\ program_unit = test_sum(10) /\ run.status # "running") =>
        (run.status = "returned" /\ run.out = <<"45">>)

spec_live_out_to_be(function, bb) ==
    LET last == bb.insts[Len(bb.insts)]
    IN CASE last.kind = "Jump" -> function.body[last.target + 1].live_in.v
         [] last.kind = "Branch" ->
                function.body[last.branch_then + 1].live_in.v
                \cup function.body[last.branch_else + 1].live_in.v
                \cup {last.cond}
         [] last.kind = "Return" -> {last.rhs}

terminator_rule(function) ==
    \A b \in 1 .. Len(function.body) :
        block_live_out(function.body[b]) = spec_live_out_to_be(function, function.body[b])

\* C21 (terminator live-out rule): once liveness() has converged, the live_out
\* on the terminator of every block is live_in(t) for Jump(t), live_in(t) \cup
\* live_in(e) \cup {c} for Branch(c, t, e) and {r} for Return(r).
C21_TerminatorLiveOut ==
    phase # "input" =>
        \A fi \in 1 .. Len(analysed.functions) : terminator_rule(analysed.functions[fi])

\* The analysed artificial jump: the Jump of block 0 carries the live_in of its
\* target, which is not empty.
C21_Witness ==
    /\ phase # "input"
    /\ program_unit = test_puts_with_artificial_jump
    /\ analysed.functions[1].body[2].live_in.v = {0}
    /\ block_live_out(analysed.functions[1].body[1]) = {0}

(***************************************************************************)
(* Properties of the Drops at the start of a block                         *)
(***************************************************************************)
\* the blocks whose terminator leads to block bb_id
predecessors(function, bb_id) ==
    { p \in 1 .. Len(function.body) : bb_id \in successors(function.body[p]) }

\* CO of the specification, read off the compiled function
carried_over_into(function, bb_id) ==
    (IF bb_id = 0 THEN { v \in 0 .. function.num_vars : v < function.num_args } ELSE {})
    \cup UNION { block_live_out(function.body[p]) : p \in predecessors(function, bb_id) }

same_but_live_out(inst1, inst2) ==
    [inst1 EXCEPT !.live_out = None] = [inst2 EXCEPT !.live_out = None]

\* `out`, from position i on, goes on with the original instruction `first`,
\* as it was or behind a Copy into a slot the input does not have
starts_original(out, i, first, num_vars) ==
    /\ i <= Len(out)
    /\ \/ same_but_live_out(out[i], first)
       \/ /\ i + 1 <= Len(out)
          /\ moved_rhs_of(first).some
          /\ out[i].kind = "Copy"
          /\ out[i].lhs >= num_vars
          /\ out[i].rhs = moved_rhs_of(first).v
          /\ same_but_live_out(out[i + 1], replace_moved_rhs(first, out[i].lhs))

unused_dropped_first(before, after, bb_id) ==
    LET out == after.body[bb_id + 1].insts
        unused == carried_over_into(after, bb_id) \ after.body[bb_id + 1].live_in.v
        n == Cardinality(unused)
    IN  /\ n <= Len(out)
        /\ \A i \in 1 .. n : out[i].kind = "Drop"
        /\ { out[i].rhs : i \in 1 .. n } = unused
        /\ starts_original(out, n + 1, before.body[bb_id + 1].insts[1], before.num_vars)

\* C22 (drops of unused carried-over values): every compiled block begins with
\* exactly one Drop for each variable that is carried over into it (the
\* parameters for block 0, the live_out of the terminators that lead to it)
\* and is not in its live_in, and the block's first original instruction (or
\* the Copy made for it) follows these Drops at once.
C22_UnusedCarriedOverDropped ==
    phase # "input" =>
        \A fi \in 1 .. Len(compiled.functions) :
            \A b \in 1 .. Len(compiled.functions[fi].body) :
                unused_dropped_first(program_unit.functions[fi], compiled.functions[fi], b - 1)

\* test_compile_drop_arg: the parameter that is never used is dropped at the
\* start of block 0, before the Literal.
C22_Witness ==
    /\ phase # "input"
    /\ program_unit = test_compile_drop_arg
    /\ carried_over_into(compiled.functions[2], 0) = {0}
    /\ compiled.functions[2].body[1].live_in.v = {}
    /\ compiled.functions[2].body[1].insts[1] = with_live_out(Drop(0), {})
    /\ compiled.functions[2].body[1].insts[2].kind = "Literal"

(***************************************************************************)
(* Liveness as the least solution of the dataflow equations.  by_table     *)
(* selects the transfer table of the specification (Closure uses nothing); *)
(* otherwise the transfer is update_alive.                                 *)
(***************************************************************************)
transfer(inst, alive, by_table) ==
    IF by_table
    THEN (alive \ (IF lhs_of(inst).some THEN {lhs_of(inst).v} ELSE {})) \cup reads_of(inst)
    ELSE update_alive(inst, alive)

\* the set live before insts[i], from the set live after the last instruction
RECURSIVE live_before(_, _, _, _)
live_before(insts, i, alive_at_end, by_table) ==
    IF i > Len(insts) THEN alive_at_end
    ELSE transfer(insts[i], live_before(insts, i + 1, alive_at_end, by_table), by_table)

live_at_end(function, live_in, b) ==
    UNION { live_in[t + 1] : t \in successors(function.body[b]) }

\* Kleene iteration from live_in on all blocks at once
RECURSIVE least_live_in(_, _, _)
least_live_in(function, live_in, by_table) ==
    LET next == [b \in 1 .. Len(function.body) |->
                    live_before(function.body[b].insts, 1,
                                live_at_end(function, live_in, b), by_table)]
    IN IF next = live_in THEN live_in ELSE least_live_in(function, next, by_table)

least_solution(function, by_table) ==
    least_live_in(function, [b \in 1 .. Len(function.body) |-> {}], by_table)

\* the variables live after insts[i] of block b in the least solution
live_after(function, b, i, by_table) ==
    live_before(function.body[b].insts, i + 1,
                live_at_end(function, least_solution(function, by_table), b), by_table)

(***************************************************************************)
(* Properties of the inserted Copies                                       *)
(***************************************************************************)
\* where the output block holds what the pass emitted for before.insts[i]
place_of(before, out, i) ==
    (Len(out.insts) - emitted_before(before.insts, Len(before.insts) + 1))
        + emitted_before(before.insts, i) + 1

\* the output holds at place k a Copy of the moved operand of `inst` into a
\* slot the input does not have, followed by `inst` reading that slot instead
copied_before(out, k, inst, num_vars) ==
    /\ k >= 1 /\ k < Len(out.insts)
    /\ moved_rhs_of(inst).some
    /\ out.insts[k].kind = "Copy"
    /\ out.insts[k].lhs >= num_vars
    /\ out.insts[k].rhs = moved_rhs_of(inst).v
    /\ same_but_live_out(out.insts[k + 1], replace_moved_rhs(inst, out.insts[k].lhs))

\* `inst` moves a variable whose value, as it is before `inst`, is read again
\* after it
value_read_again(function, b, i) ==
    LET inst == function.body[b].insts[i]
    IN  /\ moved_rhs_of(inst).some
        /\ moved_rhs_of(inst).v \in live_after(function, b, i, TRUE)
        /\ lhs_of(inst) # moved_rhs_of(inst)

copies_of(function) ==
    { <<b, i>> \in (1 .. Len(function.body)) \X (1 .. 16) :
        /\ i <= Len(function.body[b].insts)
        /\ function.body[b].insts[i].kind = "Copy" }

copy_exact(before, with_liveness, after) ==
    /\ \A b \in 1 .. Len(before.body) :
          \A i \in 1 .. Len(before.body[b].insts) :
              copied_before(after.body[b], place_of(with_liveness.body[b], after.body[b], i),
                            before.body[b].insts[i], before.num_vars)
              <=> value_read_again(before, b, i)
    /\ LET inserted == { p \in copies_of(after) :
                           after.body[p[1]].insts[p[2]].lhs >= before.num_vars }
       IN  /\ Cardinality(copies_of(after)) = Cardinality(copies_of(before)) + Cardinality(inserted)
           /\ after.num_vars = before.num_vars + Cardinality(inserted)
           /\ { after.body[p[1]].insts[p[2]].lhs : p \in inserted }
                  = { v \in 0 .. after.num_vars : before.num_vars <= v /\ v < after.num_vars }
           /\ Cardinality(inserted) = Cardinality(
                  { p \in (1 .. Len(before.body)) \X (1 .. 16) :
                      /\ p[2] <= Len(before.body[p[1]].insts)
                      /\ copied_before(after.body[p[1]],
                                       place_of(with_liveness.body[p[1]], after.body[p[1]], p[2]),
                                       before.body[p[1]].insts[p[2]], before.num_vars) })

\* C23 (copy insertion is exact): compile() puts Copy{f, o} right before an
\* original instruction and makes the instruction read f exactly when the
\* instruction moves o and the value o holds before it is read again after
\* it; every other Copy of the output is one of the input; the slots f are
\* the input's num_vars and upwards, one per inserted Copy.
C23_CopyExact ==
    phase # "input" =>
        \A fi \in 1 .. Len(compiled.functions) :
            copy_exact(program_unit.functions[fi], analysed.functions[fi],
                       compiled.functions[fi])

\* test_compile: the first PushArg of x, whose value is pushed again later,
\* reads the Copy made for it in slot 4, the input's num_vars.
C23_Witness ==
    /\ phase # "input"
    /\ program_unit = test_compile
    /\ value_read_again(program_unit.functions[1], 1, 3)
    /\ compiled.functions[1].body[1].insts[3] = with_live_out(Copy(4, 0), {0, 1, 4})
    /\ compiled.functions[1].body[1].insts[4].kind = "PushArg"
    /\ compiled.functions[1].body[1].insts[4].value_ref = 4
    /\ compiled.functions[1].num_vars = 5

(***************************************************************************)
(* The loop of liveness(), one liveness_bb call at a time.  fixpoint holds *)
(* the function being annotated, the position of the caller (`at`), the    *)
(* block the sweep visits next and the flag `updated`.  The inputs are     *)
(* two-block functions and the functions of the test programs, the latter  *)
(* also as compile() returns them (a pass run on its own output).          *)
(***************************************************************************)
TestFunctions ==
    UNION { { pu.functions[i] : i \in 1 .. Len(pu.functions) } : pu \in TestProgramUnits }

\* one instruction for each transfer of update_alive (PushArg has the transfer
\* of Drop, Builtin that of Literal) and each shape of terminator
LivenessBlocks ==
    LET middles == {Copy(l, r) : l \in SmallVars, r \in SmallVars}
                   \cup {Drop(r) : r \in SmallVars}
                   \cup {Literal(l, v) : l \in SmallVars, v \in SmallLiterals}
                   \cup {Closure(l, g) : l \in SmallVars, g \in {1, 2}}
                   \cup {Call(l, r) : l \in SmallVars, r \in SmallVars}
        tails == {Jump(t) : t \in SmallBlocks}
                 \cup {Branch(c, 0, 1) : c \in SmallVars}
                 \cup {Return(r) : r \in SmallVars}
    IN  {BasicBlock(<<tail>>) : tail \in tails}
        \cup {BasicBlock(<<middle, tail>>) : middle \in middles, tail \in tails}

LivenessFunctions ==
    {Function(0, Cardinality(SmallVars), body) :
        body \in [1 .. Cardinality(SmallBlocks) -> LivenessBlocks]}

LivenessInputs ==
    LivenessFunctions \cup {Identity, Greeter} \cup TestFunctions
    \cup { compile_function(f) : f \in {Identity, Greeter} \cup TestFunctions }

InitLiveness ==
    /\ phase = "liveness"
    /\ fixpoint = [function |-> Function(0, 0, <<>>), at |-> "caller", bb_id |-> 0,
                   updated |-> FALSE]
    /\ build = {}
    /\ IdleMiddle /\ IdleFront /\ IdleCheck /\ IdleUnify /\ IdleIds /\ IdleResolve

\* `liveness(cctx, &mut function);`, up to the first `for bb_id in ..`:
\* `let mut updated = true; while updated { updated = false;`
LivenessCall ==
    /\ phase = "liveness"
    /\ fixpoint.at = "caller"
    /\ \E f \in LivenessInputs :
          fixpoint' = [function |-> f, at |-> "for", bb_id |-> 0, updated |-> FALSE]
    /\ UNCHANGED <<phase, middle_vars, front_vars, check_vars, unify_vars, id_vars, resolve_vars,
                   build>>

\* `liveness_bb(cctx, function, bb_id, &mut updated);`
LivenessBb ==
    /\ phase = "liveness"
    /\ fixpoint.at = "for"
    /\ fixpoint.bb_id < Len(fixpoint.function.body)
    /\ LET r == liveness_bb(fixpoint.function, fixpoint.bb_id, fixpoint.updated)
       IN fixpoint' = [fixpoint EXCEPT !.function = r.function, !.updated = r.updated,
                                       !.bb_id = @ + 1]
    /\ UNCHANGED <<phase, middle_vars, front_vars, check_vars, unify_vars, id_vars, resolve_vars,
                   build>>

\* the end of the `for`, `while updated` with updated = true: `updated = false;`
\* and the next sweep
LivenessSweepAgain ==
    /\ phase = "liveness"
    /\ fixpoint.at = "for"
    /\ fixpoint.bb_id >= Len(fixpoint.function.body)
    /\ fixpoint.updated
    /\ fixpoint' = [fixpoint EXCEPT !.bb_id = 0, !.updated = FALSE]
    /\ UNCHANGED <<phase, middle_vars, front_vars, check_vars, unify_vars, id_vars, resolve_vars,
                   build>>

\* the end of the `for`, `while updated` with updated = false: liveness() returns
LivenessReturn ==
    /\ phase = "liveness"
    /\ fixpoint.at = "for"
    /\ fixpoint.bb_id >= Len(fixpoint.function.body)
    /\ ~fixpoint.updated
    /\ fixpoint' = [fixpoint EXCEPT !.at = "returned"]
    /\ UNCHANGED <<phase, middle_vars, front_vars, check_vars, unify_vars, id_vars, resolve_vars,
                   build>>

NextLiveness == LivenessCall \/ LivenessBb \/ LivenessSweepAgain \/ LivenessReturn

\* liveness() runs on one thread and nothing stops it: once it has been called,
\* a step of its loop that can be taken is taken
SpecLiveness ==
    /\ InitLiveness
    /\ [][NextLiveness]_vars
    /\ WF_vars(LivenessBb \/ LivenessSweepAgain \/ LivenessReturn)

liveness_returns == (fixpoint.at = "for") ~> (fixpoint.at = "returned")

no_change_in_a_further_sweep ==
    fixpoint.at = "returned" =>
        liveness_sweep(fixpoint.function, 0, FALSE)
            = [function |-> fixpoint.function, updated |-> FALSE]

has_loop(function) ==
    \E b \in 1 .. Len(function.body) : \E t \in successors(function.body[b]) : t + 1 <= b

\* C24 (the fixed point terminates): the loop of liveness() returns after
\* finitely many sweeps, and when it has returned one more sweep changes no
\* instruction's live_out and no block's live_in.
C24_LivenessTerminates == liveness_returns /\ []no_change_in_a_further_sweep

\* liveness() has returned on the sum loop, whose blocks 1 and 2 form a cycle
\* that carries the sum and the counter round.
C24_Witness ==
    /\ phase = "liveness"
    /\ fixpoint.at = "returned"
    /\ Len(fixpoint.function.body) = 4
    /\ has_loop(fixpoint.function)
    /\ fixpoint.function.body[2].live_in = Some({0, 1})
    /\ fixpoint.function.body[3].live_in = Some({0, 1})

(***************************************************************************)
(* liveness_bb under other visiting orders.  The repository visits the     *)
(* blocks in index order, sweep after sweep (liveness above); here the     *)
(* same liveness_bb is called on the blocks in any order, or on the blocks *)
(* of a worklist that starts with every block and receives the             *)
(* predecessors of a block whose live_in changed.  fixpoint holds the      *)
(* input, the function being annotated, the discipline, the worklist and   *)
(* whether a visit has taken the early return.                             *)
(***************************************************************************)
OrderInputs == LivenessFunctions \cup {Identity, Greeter} \cup TestFunctions

block_ids(function) == { b - 1 : b \in 1 .. Len(function.body) }

InitOrder ==
    /\ phase = "order"
    /\ fixpoint = [input |-> Function(0, 0, <<>>), function |-> Function(0, 0, <<>>),
                   at |-> "caller", discipline |-> "none", worklist |-> {},
                   exited_early |-> FALSE]
    /\ build = {}
    /\ IdleMiddle /\ IdleFront /\ IdleCheck /\ IdleUnify /\ IdleIds /\ IdleResolve

\* the analysis is started on a function without live sets
OrderCall ==
    /\ phase = "order"
    /\ fixpoint.at = "caller"
    /\ \E f \in OrderInputs : \E d \in {"any_order", "worklist"} :
          fixpoint' = [input |-> f, function |-> f, at |-> "visiting", discipline |-> d,
                       worklist |-> IF d = "worklist" THEN block_ids(f) ELSE {},
                       exited_early |-> FALSE]
    /\ UNCHANGED <<phase, middle_vars, front_vars, check_vars, unify_vars, id_vars, resolve_vars,
                   build>>

\* whether liveness_bb takes its early return inside the loop over the instructions
exits_early(function, bb_id) ==
    LET bb == function.body[bb_id + 1]
    IN  liveness_insts(bb.insts, Len(bb.insts), block_live_out_to_be(function, bb)).returned

\* liveness_bb on any block
VisitAny ==
    /\ phase = "order"
    /\ fixpoint.at = "visiting"
    /\ fixpoint.discipline = "any_order"
    /\ \E bb_id \in block_ids(fixpoint.function) :
          fixpoint' = [fixpoint EXCEPT
                          !.function = liveness_bb(fixpoint.function, bb_id, FALSE).function,
                          !.exited_early = @ \/ exits_early(fixpoint.function, bb_id)]
    /\ UNCHANGED <<phase, middle_vars, front_vars, check_vars, unify_vars, id_vars, resolve_vars,
                   build>>

\* liveness_bb on a block taken from the worklist; when the block's live_in
\* changed, the blocks that lead to it are put on the worklist
VisitWorklist ==
    /\ phase = "order"
    /\ fixpoint.at = "visiting"
    /\ fixpoint.discipline = "worklist"
    /\ \E bb_id \in fixpoint.worklist :
          LET r == liveness_bb(fixpoint.function, bb_id, FALSE)
          IN  fixpoint' = [fixpoint EXCEPT
                  !.function = r.function,
                  !.worklist = (@ \ {bb_id})
                               \cup (IF r.updated
                                     THEN { p - 1 : p \in predecessors(fixpoint.function, bb_id) }
                                     ELSE {}),
                  !.exited_early = @ \/ exits_early(fixpoint.function, bb_id)]
    /\ UNCHANGED <<phase, middle_vars, front_vars, check_vars, unify_vars, id_vars, resolve_vars,
                   build>>

NextOrder == OrderCall \/ VisitAny \/ VisitWorklist

SpecOrder == InitOrder /\ [][NextOrder]_vars

\* no visit would change anything, or the worklist is empty
converged ==
    /\ fixpoint.at = "visiting"
    /\ IF fixpoint.discipline = "worklist" THEN fixpoint.worklist = {}
       ELSE \A bb_id \in block_ids(fixpoint.function) :
               liveness_bb(fixpoint.function, bb_id, FALSE)
                   = [function |-> fixpoint.function, updated |-> FALSE]

\* the function carries the least solution of the equations of update_alive
is_least_solution(input, function) ==
    /\ Len(function.body) = Len(input.body)
    /\ \A b \in 1 .. Len(function.body) :
          /\ function.body[b].live_in = Some(least_solution(input, FALSE)[b])
          /\ Len(function.body[b].insts) = Len(input.body[b].insts)
          /\ \A i \in 1 .. Len(function.body[b].insts) :
                function.body[b].insts[i]
                    = with_live_out(input.body[b].insts[i], live_after(input, b, i, FALSE))

\* C25 (the result does not depend on the visiting order): for a function
\* without live sets on input, the sets at convergence are the least solution
\* of the dataflow equations and are those the index-order sweeps of liveness()
\* give, whether the blocks are visited in any order or from a worklist of the
\* blocks whose successors' live_in changed; no set left by an early return
\* differs from the solution.
C25_OrderIndependent ==
    converged =>
        /\ is_least_solution(fixpoint.input, fixpoint.function)
        /\ fixpoint.function = liveness(fixpoint.input)

\* The worklist has run empty on a function with a loop, after a visit that
\* took the early return, and the live_in of the loop is not empty.
C25_Witness ==
    /\ phase = "order"
    /\ converged
    /\ fixpoint.discipline = "worklist"
    /\ fixpoint.exited_early
    /\ has_loop(fixpoint.function)
    /\ fixpoint.function.body[2].live_in = Some({0, 1})
    /\ is_least_solution(fixpoint.input, fixpoint.function)

(***************************************************************************)
(* Properties of the transfer of Closure                                   *)
(***************************************************************************)
\* the set live before insts[i], as the analysis recorded it
recorded_live_in(bb, i) == IF i = 1 THEN bb.live_in.v ELSE bb.insts[i - 1].live_out.v

closure_uses_nothing(bb) ==
    \A i \in 1 .. Len(bb.insts) :
        bb.insts[i].kind = "Closure" =>
            recorded_live_in(bb, i) = bb.insts[i].live_out.v \ {bb.insts[i].lhs}

\* C26 (Closure uses no variable): in the live sets liveness() records, the
\* set live before Closure{lhs, function_id} is its live_out without lhs,
\* whatever the number function_id is.
C26_ClosureUsesNothing == phase # "input" => every_block(analysed, closure_uses_nothing)

\* An analysed Closure for which the rule holds: the variable with the number
\* of its function_id is live after it for another reason, a later read.
C26_Witness ==
    /\ phase # "input"
    /\ program_unit \in SmallProgramUnits
    /\ LET bb == analysed.functions[1].body[1]
       IN  /\ bb.insts[1] = with_live_out(Closure(0, 1), {1})
           /\ bb.insts[2].kind = "Return"
           /\ bb.insts[2].rhs = 1
           /\ recorded_live_in(bb, 1) = {1}
           /\ closure_uses_nothing(bb)


(***************************************************************************)
(* compile() as a whole (sir_compile.rs:8-17).  `cfg!(name)` is true when  *)
(* the option `name` is set for the build: a debug build (the dev and test *)
(* profiles) sets debug_assertions, a release build sets neither, and      *)
(* debug_assert is set only when it is passed with `--cfg`.  The call ends *)
(* in one of three ways: the unwrap() of the validation error panics, an   *)
(* index or an assertion of the pass panics, or the output is returned.    *)
(***************************************************************************)
Builds == {{"debug_assertions"}, {}, {"debug_assert"}, {"debug_assertions", "debug_assert"}}

cfg(name) == name \in build

\* the blocks a tail instruction names
targets_of(inst) ==
    CASE inst.kind = "Jump" -> {inst.target}
      [] inst.kind = "Branch" -> {inst.branch_then, inst.branch_else}
      [] OTHER -> {}

\* `bb.insts.last().unwrap()`, `assert!(last.kind.is_tail())` and
\* `function.body[*target]` in block_live_out_to_be and in insert_copy
block_panics(function, bb) ==
    \/ bb.insts = <<>>
    \/ ~is_tail(bb.insts[Len(bb.insts)])
    \/ \E t \in targets_of(bb.insts[Len(bb.insts)]) : t >= Len(function.body)

\* the panics of compile_function: those of its blocks and `carried_over[0]`
\* of insert_copy in a function without blocks
function_panics(function) ==
    \/ \E b \in 1 .. Len(function.body) : block_panics(function, function.body[b])
    \/ function.body = <<>> /\ function.num_args > 0

pass_panics(pu) == \E f \in 1 .. Len(pu.functions) : function_panics(pu.functions[f])

InitCompile ==
    /\ phase = "input"
    /\ program_unit \in CheckedProgramUnits \cup TestProgramUnits
    /\ analysed = NoProgram
    /\ compiled = NoProgram
    /\ ref = NoMachine
    /\ run = NoMachine
    /\ fixpoint = <<>>
    /\ build \in Builds
    /\ IdleFront /\ IdleCheck /\ IdleUnify /\ IdleIds /\ IdleResolve

\* `compile(&cctx, program_unit)`
CompileCall ==
    /\ phase = "input"
    /\ LET checks == cfg("debug_assert")
           result == validate_insts(program_unit)
       IN  IF checks /\ result # "Ok"
           THEN /\ validated' = result
                /\ phase' = "validation_error"
                /\ UNCHANGED compiled
           ELSE /\ validated' = IF checks THEN result ELSE "none"
                /\ IF pass_panics(program_unit)
                   THEN phase' = "pass_panicked" /\ UNCHANGED compiled
                   ELSE phase' = "returned" /\ compiled' = compile(program_unit)
    /\ UNCHANGED <<program_unit, analysed, ref, run, front_vars, checker, unify_vars, id_vars,
                   resolve_vars, pass_vars>>

NextCompile == CompileCall

SpecCompile == InitCompile /\ [][NextCompile]_vars

debug_build == cfg("debug_assertions")
malformed(pu) == validate_insts(pu) # "Ok"

\* C27: in a debug build compile() validates its input before the pass, and
\* a malformed input (dangling block, variable or function id, missing tail,
\* tail in the middle of a block) ends the call with the validation error
\* and without an output.
C27_ValidationPrecedes ==
    (phase # "input" /\ debug_build /\ malformed(program_unit))
        => /\ phase = "validation_error"
           /\ validated = validate_insts(program_unit)
           /\ compiled = NoProgram

\* a debug build has been handed a block that returns a slot the function
\* does not have, and the call is over
C27_Witness ==
    /\ phase # "input"
    /\ debug_build
    /\ program_unit = ProgramUnit(<<Function(0, 3, <<BasicBlock(<<Return(3)>>)>>), Identity>>)


(***************************************************************************)
(* The control-flow graph of a lowered function.  A block leaves through   *)
(* one tail instruction: for the pass it is the last instruction of the    *)
(* block (block_live_out_to_be and insert_copy read `insts.last()`), for   *)
(* the interpreter it is the first tail it meets.  A block without a tail  *)
(* in that position has no successor.                                      *)
(***************************************************************************)
RECURSIVE first_tail(_, _)
\* the position of the first tail instruction from i on, 0 when there is none
first_tail(insts, i) ==
    IF i > Len(insts) THEN 0
    ELSE IF is_tail(insts[i]) THEN i
    ELSE first_tail(insts, i + 1)

\* the position of the instruction through which the block is left
leaving_inst(bb, reading) ==
    IF reading = "last"
    THEN IF bb.insts # <<>> /\ is_tail(bb.insts[Len(bb.insts)]) THEN Len(bb.insts) ELSE 0
    ELSE first_tail(bb.insts, 1)

\* the successors of block b (0-based ids)
leaving_targets(function, b, reading) ==
    LET bb == function.body[b + 1]
        i == leaving_inst(bb, reading)
    IN  IF i = 0 THEN {} ELSE targets_of(bb.insts[i])

cfg_predecessors(function, t, reading) ==
    {b \in 0 .. Len(function.body) - 1 : t \in leaving_targets(function, b, reading)}

\* no edge has both a source with several successors and a target with
\* several predecessors
no_many_to_many(function, reading) ==
    \A b \in 0 .. Len(function.body) - 1 :
        \A t \in leaving_targets(function, b, reading) :
            \/ Cardinality(leaving_targets(function, b, reading)) = 1
            \/ Cardinality(cfg_predecessors(function, t, reading)) = 1

\* every tail instruction of the function, wherever it stands: <<block, position>>
tail_places(function) ==
    UNION {{<<b, i>> : i \in {j \in DOMAIN function.body[b].insts :
                                    is_tail(function.body[b].insts[j])}} :
              b \in DOMAIN function.body}

\* the target of a Branch is named by that Branch alone, and once
branch_targets_entered_once(function) ==
    \A p \in tail_places(function) :
        LET inst == function.body[p[1]].insts[p[2]]
        IN  inst.kind = "Branch" =>
                /\ inst.branch_then # inst.branch_else
                /\ \A q \in tail_places(function) \ {p} :
                       targets_of(function.body[q[1]].insts[q[2]])
                           \cap targets_of(inst) = {}

\* C28: lower() never produces a many-to-many edge.  In the control-flow
\* graph of every lowered function, whichever way Branch and While are
\* nested, every edge leaves a block with a single successor (Jump) or
\* enters a block with a single predecessor, and the target of a Branch is
\* entered from that Branch only.
C28_NoManyToMany ==
    has_lowered =>
        /\ no_many_to_many(lowered, "last")
        /\ no_many_to_many(lowered, "first")
        /\ branch_targets_entered_once(lowered)

\* a While in the arm of a Branch has been lowered: the function has a
\* block entered by two Jumps and blocks entered by a Branch
C28_Witness ==
    /\ has_lowered
    /\ has_nested_control(block(stmts))
    /\ has_while(block(stmts))
    /\ \E t \in 0 .. Len(lowered.body) - 1 :
           Cardinality(cfg_predecessors(lowered, t, "last")) = 2
    /\ \E b \in 0 .. Len(lowered.body) - 1 :
           Cardinality(leaving_targets(lowered, b, "last")) = 2


(***************************************************************************)
(* The lowering of `let x = ..; while cond { body }` with a condition and  *)
(* a body free of Branch and While.  The While is lowered from block 0     *)
(* (prev); its result slot is the function's result slot when the          *)
(* statement yields its value (lower_stmts passes Some(result_var) to the  *)
(* last statement) and the dummy temporary of lower_stmt otherwise.        *)
(***************************************************************************)
is_while_program ==
    /\ Len(stmts) = 2
    /\ stmts[1].kind = "Let" /\ ~has_control(stmts[1].init)
    /\ stmts[2].kind = "Expr" /\ stmts[2].expr.kind = "While"
    /\ ~has_control(stmts[2].expr.cond) /\ ~has_control(stmts[2].expr.body)

num_named_vars == Cardinality(collect_vars_stmts(stmts))

\* the slot lower_stmt hands to lower_expr for the While
while_result_var ==
    IF stmts[2].use_value THEN num_named_vars ELSE num_named_vars + 1

last_inst(function, bb_id) ==
    function.body[bb_id + 1].insts[Len(function.body[bb_id + 1].insts)]

\* cond_bb, body_bb and cont_bb are blocks 1, 2 and 3 and are linked as a loop
while_blocks(function) ==
    /\ Len(function.body) = 4
    /\ last_inst(function, 0) = Jump(1)
    /\ last_inst(function, 1).kind = "Branch"
    /\ last_inst(function, 1).branch_then = 2
    /\ last_inst(function, 1).branch_else = 3
    /\ last_inst(function, 2) = Jump(1)

\* the condition is computed into a slot of its own
cond_var_fresh(function, r) == last_inst(function, 1).cond # r

\* the block after the loop first writes Unit to the result slot of the While
cont_writes_unit(function, r) == function.body[4].insts[1] = Literal(r, LitUnit)

\* C30: shape of a lowered While.  Lowering While(cond, body) with result
\* slot r from block prev creates cond_bb, body_bb and cont_bb in that order;
\* prev ends with Jump cond_bb, cond_bb with Branch(cond_var, body_bb, cont_bb)
\* where cond_var is a fresh variable different from r, body_bb with Jump
\* cond_bb, and cont_bb starts with Literal(Unit) written to r.
C30_WhileShape ==
    (has_lowered /\ is_while_program) =>
        /\ while_blocks(lowered)
        /\ cond_var_fresh(lowered, while_result_var)
        /\ cont_writes_unit(lowered, while_result_var)

\* the loop of test_lower_loop has been lowered
C30_Witness == has_lowered /\ is_while_program /\ stmts = test_lower_loop


(***************************************************************************)
(* Structural validity of compile()'s output against that of its input     *)
(***************************************************************************)
\* the function keeps its blocks and arguments, every block ends in its only
\* tail, and every variable id named is below num_vars
structure_kept(before, after) ==
    /\ after.num_args = before.num_args
    /\ Len(after.body) = Len(before.body)
    /\ well_formed(after)
    /\ \A b \in DOMAIN after.body :
           \A i \in DOMAIN after.body[b].insts :
               \A v \in referenced_vars(after.body[b].insts[i]) : v < after.num_vars

has_output == phase = "returned"

\* C29: the pass preserves structural validity.  When the input passes
\* validate_insts, so does the output of compile(); every output block ends
\* in a tail and has no earlier one, the blocks are those of the input,
\* num_args is unchanged and every variable id an instruction names, the
\* fresh slots of the inserted Copies included, is below num_vars.
C29_ValidityPreserved ==
    (has_output /\ validate_insts(program_unit) = "Ok") =>
        /\ validate_insts(compiled) = "Ok"
        /\ Len(compiled.functions) = Len(program_unit.functions)
        /\ \A f \in DOMAIN compiled.functions :
               structure_kept(program_unit.functions[f], compiled.functions[f])

\* a valid input whose output holds an inserted Copy into a fresh slot
C29_Witness ==
    /\ has_output
    /\ program_unit = test_compile
    /\ validate_insts(program_unit) = "Ok"
    /\ compiled.functions[1].num_vars > program_unit.functions[1].num_vars

====
